---- MODULE Spec2Model ----
(***************************************************************************)
(* Verification model of the r-pod backend's stream resolution and         *)
(* delivery engine:                                                        *)
(*   - ProxyManager          (backend-python/services/proxy_manager.py)    *)
(*   - AudioStreamingService (backend-python/services/                     *)
(*                            audio_streaming_service_v3.py)               *)
(*   - stream_youtube        (backend-python/main.py)                      *)
(*   - stream_youtube        (ipod-music-app/backend-python/main.py)       *)
(* Each component has its own specification over the shared variables:     *)
(* SpecPool, SpecTasks (the pool under concurrent callers), Spec and       *)
(* SpecLive (resolver and relay), SpecFormat (format selection) and        *)
(* SpecIpod (the relay of ipod-music-app).                                 *)
(***************************************************************************)
EXTENDS Integers, Sequences, FiniteSets, TLC

(***************************************************************************)
(* Optional values: None is the empty sequence, Some(x) the singleton.     *)
(***************************************************************************)
None == << >>
Some(x) == << x >>

Max(a, b) == IF a >= b THEN a ELSE b

(***************************************************************************)
(*                           PROXY POOL                                    *)
(***************************************************************************)

\* The clock (datetime.now(), in minutes) runs from 0 to MaxTime, in steps
\* of TickMinutes: a last success is 0, 5 or 10 minutes old.
MaxTime == 10
TickMinutes == 5
\* mark_failure is not called again on a proxy that has MaxFailures failures.
MaxFailures == 6
\* Largest response time (seconds) reported to mark_success.
MaxLatency == 1
\* mark_success is called at most MaxSuccesses times.
MaxSuccesses == 2

\* ProxyInfo.is_healthy: "if self.failures > 5".
FAILURE_THRESHOLD == 5
\* ProxyInfo.is_healthy: timedelta(minutes=5).
STALE_MINUTES == 5
\* get_proxy's sort key: "p.last_used or datetime.min".
DATETIME_MIN == 0 - 1

\* The proxy URLs a pool may be built from, in list order.
Proxies == {1, 2}
\* ProxyManager(proxies): the URL lists given to the constructor (none, one
\* URL, two URLs).
ProxyLists == { {}, {1}, {1, 2} }
\* avg_response_time is a float: it is kept as an integer number of
\* 1/Unit seconds, which is exact for MaxSuccesses moving-average updates.
Unit == 10 ^ MaxSuccesses
Latencies == {s * Unit : s \in 0..MaxLatency}

VARIABLES
    proxies,            \* self.proxies: the ProxyInfo objects of the pool
    failures,           \* ProxyInfo.failures, per proxy
    last_used,          \* ProxyInfo.last_used, None or Some(time)
    last_success,       \* ProxyInfo.last_success, None or Some(time)
    avg_response_time,  \* ProxyInfo.avg_response_time
    now,                \* datetime.now()
    lastCall,           \* the last pool call and what it returned
    successes,          \* number of mark_success calls so far
    samples,            \* the response times reported for each proxy, in order
    recovered           \* proxies a mark_success took from > 5 failures to <= 5

poolVars == << proxies, failures, last_used, last_success, avg_response_time, now,
              lastCall, successes, samples, recovered >>

\* Mutation of is_healthy: the failure test is dropped.
is_healthy_NoFailureTest(p) ==
    ~ (last_success[p] # None /\ now - last_success[p][1] > STALE_MINUTES)

\* Mutation of is_healthy: the failure test is off by one.
is_healthy_OffByOne(p) ==
    IF failures[p] >= FAILURE_THRESHOLD THEN FALSE
    ELSE IF last_success[p] # None /\ now - last_success[p][1] > STALE_MINUTES THEN FALSE
    ELSE TRUE

\* Mutation of is_healthy: a proxy that was once over the threshold stays
\* disabled.
is_healthy_Sticky(p) ==
    IF failures[p] > FAILURE_THRESHOLD \/ p \in recovered THEN FALSE
    ELSE IF last_success[p] # None /\ now - last_success[p][1] > STALE_MINUTES THEN FALSE
    ELSE TRUE

\* ProxyInfo.is_healthy
is_healthy(p) ==
    IF failures[p] > FAILURE_THRESHOLD THEN FALSE
    ELSE IF last_success[p] # None /\ now - last_success[p][1] > STALE_MINUTES THEN FALSE
    ELSE TRUE

\* Mutation of SortKey: the fastest proxy first, the least recently used last.
SortKey_LatencyFirst(p) ==
    << avg_response_time[p], failures[p],
       IF last_used[p] = None THEN DATETIME_MIN ELSE last_used[p][1] >>

\* The sort key of get_proxy: (last_used or datetime.min, failures, avg).
SortKey(p) ==
    << IF last_used[p] = None THEN DATETIME_MIN ELSE last_used[p][1],
       failures[p], avg_response_time[p] >>

\* Lexicographic order on the key triples.
KeyLess(a, b) ==
    \/ a[1] < b[1]
    \/ a[1] = b[1] /\ a[2] < b[2]
    \/ a[1] = b[1] /\ a[2] = b[2] /\ a[3] < b[3]

\* Mutation of BestProxy: the last element of the sorted list is taken.
BestProxy_LastOfSorted(healthy) ==
    CHOOSE p \in healthy :
        \A q \in healthy \ {p} :
            \/ KeyLess(SortKey(q), SortKey(p))
            \/ SortKey(p) = SortKey(q) /\ q < p

\* healthy_proxies.sort(key=...)[0]: list.sort is stable, so among the
\* proxies with the least key the one first in self.proxies is the head.
BestProxy(healthy) ==
    CHOOSE p \in healthy :
        \A q \in healthy \ {p} :
            \/ KeyLess(SortKey(p), SortKey(q))
            \/ SortKey(p) = SortKey(q) /\ p < q

\* The record kept of a pool call: the call and what it returned.  run,
\* healthy and fresh describe a run of get_proxy calls (see AcquireRecord).
CallRecord(op, proxy) ==
    [op |-> op, proxy |-> proxy, run |-> << >>, healthy |-> {}, fresh |-> FALSE]

\* The record of a get_proxy call that returned proxy out of the healthy
\* proxies given.  run lists what the get_proxy calls returned that
\* followed one another with no report in between, each at a later time
\* than the one before and with the same proxies healthy; healthy is that
\* set; fresh tells that the first call of the run came later than every
\* last_used stamp of the pool.
AcquireRecord(healthy_proxies, proxy) ==
    IF /\ lastCall.op = "get_proxy"
       /\ lastCall.proxy # None
       /\ lastCall.healthy = healthy_proxies
       /\ now > last_used[lastCall.proxy[1]][1]
    THEN [lastCall EXCEPT !.proxy = Some(proxy), !.run = Append(lastCall.run, proxy)]
    ELSE [op |-> "get_proxy", proxy |-> Some(proxy), run |-> << proxy >>,
          healthy |-> healthy_proxies,
          fresh |-> \A p \in proxies : last_used[p] = None \/ last_used[p][1] < now]

\* ProxyManager.__init__ / _load_proxies
InitPoolVars ==
    /\ proxies \in ProxyLists
    /\ failures = [p \in Proxies |-> 0]
    /\ last_used = [p \in Proxies |-> None]
    /\ last_success = [p \in Proxies |-> None]
    /\ avg_response_time = [p \in Proxies |-> 0]
    /\ now = 0
    /\ lastCall = CallRecord("init", None)
    /\ successes = 0
    /\ samples = [p \in Proxies |-> << >>]
    /\ recovered = {}

\* The pool while another component runs: ProxyManager(), no proxy URL.
IdlePoolVars == InitPoolVars /\ proxies = {}

\* Mutation of get_proxy: with no healthy proxy it falls back to the whole
\* pool.
get_proxy_FallbackToAny ==
    LET healthy_proxies == {p \in proxies : is_healthy(p)}
        candidates == IF healthy_proxies = {} THEN proxies ELSE healthy_proxies IN
    IF candidates = {}
    THEN /\ lastCall' = CallRecord("get_proxy", None)
         /\ UNCHANGED << proxies, failures, last_used, last_success, avg_response_time,
                        now, successes, samples, recovered >>
    ELSE LET proxy == BestProxy(candidates) IN
         /\ last_used' = [last_used EXCEPT ![proxy] = Some(now)]
         /\ lastCall' = AcquireRecord(candidates, proxy)
         /\ UNCHANGED << proxies, failures, last_success, avg_response_time, now,
                        successes, samples, recovered >>

\* ProxyManager.get_proxy (the whole body runs under self._lock)
get_proxy ==
    LET healthy_proxies == {p \in proxies : is_healthy(p)} IN
    IF healthy_proxies = {}
    THEN /\ lastCall' = CallRecord("get_proxy", None)
         /\ UNCHANGED << proxies, failures, last_used, last_success, avg_response_time,
                        now, successes, samples, recovered >>
    ELSE LET proxy == BestProxy(healthy_proxies) IN
         /\ last_used' = [last_used EXCEPT ![proxy] = Some(now)]
         /\ lastCall' = AcquireRecord(healthy_proxies, proxy)
         /\ UNCHANGED << proxies, failures, last_success, avg_response_time, now,
                        successes, samples, recovered >>

\* Mutation of ReducedFailures: a success clears the count.
ReducedFailures_Reset(n) == 0

\* mark_success: "max(0, proxy.failures - 1)"
ReducedFailures(n) == Max(0, n - 1)

\* ProxyManager.mark_success(proxy, response_time)
mark_success(proxy, response_time) ==
    /\ successes < MaxSuccesses
    /\ successes' = successes + 1
    /\ last_success' = [last_success EXCEPT ![proxy] = Some(now)]
    /\ failures' = [failures EXCEPT ![proxy] = ReducedFailures(failures[proxy])]
    /\ avg_response_time' =
          [avg_response_time EXCEPT ![proxy] =
              IF avg_response_time[proxy] = 0
              THEN response_time
              ELSE (7 * avg_response_time[proxy] + 3 * response_time) \div 10]
    /\ lastCall' = CallRecord("mark_success", Some(proxy))
    /\ samples' = [samples EXCEPT ![proxy] = Append(samples[proxy], response_time)]
    /\ recovered' =
          IF failures[proxy] > FAILURE_THRESHOLD /\ failures'[proxy] <= FAILURE_THRESHOLD
          THEN recovered \cup {proxy} ELSE recovered
    /\ UNCHANGED << proxies, last_used, now >>

\* Mutation of IncrementedFailures: a failure counts twice.
IncrementedFailures_Twice(n) == n + 2

\* mark_failure: "proxy.failures += 1"
IncrementedFailures(n) == n + 1

\* ProxyManager.mark_failure(proxy, error)
mark_failure(proxy) ==
    /\ failures[proxy] < MaxFailures
    /\ failures' = [failures EXCEPT ![proxy] = IncrementedFailures(failures[proxy])]
    /\ lastCall' = CallRecord("mark_failure", Some(proxy))
    /\ UNCHANGED << proxies, last_used, last_success, avg_response_time, now, successes,
                    samples, recovered >>

\* Time passes between calls.
Tick ==
    /\ now + TickMinutes <= MaxTime
    /\ now' = now + TickMinutes
    /\ UNCHANGED << proxies, failures, last_used, last_success, avg_response_time,
                   lastCall, successes, samples, recovered >>

(***************************************************************************)
(*                        FORMAT SELECTION                                 *)
(***************************************************************************)

\* A MIME-type string is a sequence of tokens; "" (a missing mimeType) is
\* the empty sequence.
MIME_AUDIO_MP4 == << "audio", "/", "mp4" >>
MIME_AUDIO_UPPER == << "AUDIO", "/", "mp4" >>
MIME_VIDEO_MP4 == << "video", "/", "mp4" >>
MIME_VIDEO_WITH_AUDIO == << "video", "/", "mp4", ";", "audio" >>
MIME_MISSING == << >>

\* str.lower() on one token
Lower(t) == IF t = "AUDIO" THEN "audio" ELSE t

\* f.get("mimeType", "").startswith("audio/")
StartsWithAudio(f) ==
    /\ Len(f.mimeType) >= 2
    /\ f.mimeType[1] = "audio"
    /\ f.mimeType[2] = "/"

\* "audio" in f.get("mimeType", "").lower()
ContainsAudio(f) ==
    \E k \in 1..Len(f.mimeType) : Lower(f.mimeType[k]) = "audio"

\* x.get("bitrate", 0)
BitrateKey(f) == IF f.bitrate = None THEN 0 ELSE f.bitrate[1]

\* [f for f in formats if keep(f)]: the positions kept, in list order
RECURSIVE FilterAudioOnly(_)
FilterAudioOnly(formats) ==
    IF formats = << >> THEN << >>
    ELSE IF StartsWithAudio(Head(formats))
         THEN << Head(formats) >> \o FilterAudioOnly(Tail(formats))
         ELSE FilterAudioOnly(Tail(formats))

RECURSIVE FilterContainsAudio(_)
FilterContainsAudio(formats) ==
    IF formats = << >> THEN << >>
    ELSE IF ContainsAudio(Head(formats))
         THEN << Head(formats) >> \o FilterContainsAudio(Tail(formats))
         ELSE FilterContainsAudio(Tail(formats))

\* Mutation of MaxByBitrate: min instead of max.
RECURSIVE MinByBitrate(_)
MinByBitrate(fs) ==
    IF Len(fs) = 1 THEN fs[1]
    ELSE LET rest == MinByBitrate(Tail(fs)) IN
         IF BitrateKey(Head(fs)) <= BitrateKey(rest) THEN Head(fs) ELSE rest

\* max(audio_formats, key=lambda x: x.get("bitrate", 0)): the first of the
\* formats with the greatest key.
RECURSIVE MaxByBitrate(_)
MaxByBitrate(fs) ==
    IF Len(fs) = 1 THEN fs[1]
    ELSE LET rest == MaxByBitrate(Tail(fs)) IN
         IF BitrateKey(Head(fs)) >= BitrateKey(rest) THEN Head(fs) ELSE rest

\* The format AudioStreamingService._extract_stream_url_from_innertube
\* settles on: None, or Some(best_format).
BestFormat(player_response) ==
    IF player_response.streamingData = None THEN None
    ELSE LET streaming_data == player_response.streamingData[1]
             formats == IF streaming_data.adaptiveFormats # << >>
                        THEN streaming_data.adaptiveFormats
                        ELSE streaming_data.formats
             audio_only == FilterAudioOnly(formats)
             audio_formats == IF audio_only # << >> THEN audio_only
                              ELSE FilterContainsAudio(formats)
         IN  IF formats = << >> THEN None
             ELSE IF audio_formats = << >> THEN None
             ELSE Some(MaxByBitrate(audio_formats))

\* AudioStreamingService._extract_stream_url_from_innertube: None, or
\* Some(stream info).
extract_stream_url_from_innertube(player_response, client_name) ==
    LET best == BestFormat(player_response) IN
    IF best = None THEN None
    ELSE IF best[1].url = None THEN None
    ELSE Some([url |-> best[1].url, bitrate |-> best[1].bitrate,
               strategy |-> << "innertube", client_name >>])

\* Longest adaptiveFormats list of a player response, and largest bitrate.
MaxFormats == 2
MaxBitrate == 2

MimeTypes == { MIME_AUDIO_MP4, MIME_AUDIO_UPPER, MIME_VIDEO_MP4,
               MIME_VIDEO_WITH_AUDIO, MIME_MISSING }
Bitrates == {None} \cup {Some(b) : b \in 1..MaxBitrate}

\* What the upstream may put in one entry of a format list.
FormatShapes == [mimeType : MimeTypes, bitrate : Bitrates, hasUrl : BOOLEAN]
\* The regular (muxed) "formats" list holds at most one of these entries.
RegularShapes == { [mimeType |-> MIME_AUDIO_MP4, bitrate |-> Some(1), hasUrl |-> TRUE],
                   [mimeType |-> MIME_VIDEO_WITH_AUDIO, bitrate |-> None, hasUrl |-> TRUE],
                   [mimeType |-> MIME_VIDEO_MP4, bitrate |-> Some(1), hasUrl |-> TRUE] }

SeqsUpTo(S, n) == UNION { [1..k -> S] : k \in 0..n }

\* The format list of the given name with the given entries; every URL is
\* distinct: it names the list and the position, and the request it answers.
MkFormats(list, shapes, tag) ==
    [k \in 1..Len(shapes) |->
        [mimeType |-> shapes[k].mimeType,
         bitrate |-> shapes[k].bitrate,
         url |-> IF shapes[k].hasUrl THEN Some(<< list, k, tag >>) ELSE None]]

MkPlayerResponse(adaptive, regular, tag) ==
    [streamingData |->
        Some([adaptiveFormats |-> MkFormats("adaptiveFormats", adaptive, tag),
              formats |-> MkFormats("formats", regular, tag)])]

NoStreamingData == [streamingData |-> None]

VARIABLES
    player_response,    \* argument of _extract_stream_url_from_innertube
    extracted           \* "pending", or the value the call returned

fmtVars == << player_response, extracted >>

InitFormatVars ==
    /\ player_response \in
          {NoStreamingData} \cup
          { MkPlayerResponse(a, r, 0) :
               a \in SeqsUpTo(FormatShapes, MaxFormats),
               r \in SeqsUpTo(RegularShapes, 1) }
    /\ extracted = << "pending" >>

\* One call of _extract_stream_url_from_innertube(player_response, "WEB_REMIX")
ExtractCall ==
    /\ extracted = << "pending" >>
    /\ extracted' = << "returned",
                       extract_stream_url_from_innertube(player_response, "WEB_REMIX") >>
    /\ UNCHANGED player_response

(***************************************************************************)
(*                 STREAM RESOLVER (AudioStreamingService)                 *)
(***************************************************************************)

\* Number of client requests (resolve or stream) made one after the other.
MaxOps == 2

MediaIds == {"v1", "v2"}

\* Mutation of strategies: the external service is tried before the IOS client.
strategies_Swapped ==
    << "_try_yt_dlp_authenticated", "_try_innertube_web_remix",
       "_try_innertube_android", "_try_cobalt_api",
       "_try_innertube_ios", "_try_piped_fallback" >>

\* get_stream_url: the strategy list, in the order it is tried.
strategies ==
    << "_try_yt_dlp_authenticated", "_try_innertube_web_remix",
       "_try_innertube_android", "_try_innertube_ios",
       "_try_cobalt_api", "_try_piped_fallback" >>

\* client_name passed to _try_innertube_client by each innertube strategy
ClientName(strategy) ==
    CASE strategy = "_try_innertube_web_remix" -> "WEB_REMIX"
      [] strategy = "_try_innertube_android" -> "ANDROID"
      [] strategy = "_try_innertube_ios" -> "IOS"
      [] OTHER -> "none"

\* _try_innertube_client: "for attempt in range(3)"
INNERTUBE_ATTEMPTS == 3
\* _try_cobalt_api: "for attempt in range(2)" for each of cobalt_instances
COBALT_ATTEMPTS == 2
cobalt_instances == << "https://api.cobalt.tools/api/json", "https://co.wuk.sh/api/json" >>
\* _try_piped_fallback: one request to each of piped_instances
piped_instances == << "https://pipedapi.kavin.rocks", "https://pipedapi.adminforge.de" >>

\* The player responses the upstream answers a player request with; tag
\* makes the signed URLs of each resolution distinct.
InnertubeBodies(tag) ==
    { NoStreamingData,
      MkPlayerResponse(<< [mimeType |-> MIME_AUDIO_MP4, bitrate |-> Some(1), hasUrl |-> TRUE],
                          [mimeType |-> MIME_AUDIO_MP4, bitrate |-> Some(2), hasUrl |-> TRUE] >>,
                       << >>, tag),
      MkPlayerResponse(<< [mimeType |-> MIME_AUDIO_MP4, bitrate |-> Some(2), hasUrl |-> FALSE] >>,
                       << >>, tag) }

VARIABLES
    cookie_file,    \* self.cookie_file is set (a cookie was configured)
    svc_proxies,    \* self.proxies of the streaming service
    cache,          \* self.cache
    call,           \* the get_stream_url call in progress
    started,        \* strategies started by this call, in order
    sent,           \* upstream requests issued by the current strategy
    sawUnusable,    \* the current strategy got a 200 it could not use
    lastFailure,    \* how the last strategy of this call to fail returned
    inflight,       \* strategies of this call that have not returned yet
    firstSuccess,   \* the first strategy of this call that returned a URL
    sentAfterSuccess, \* a request went out after firstSuccess was set
    accepted,       \* what was read of the response the returned URL was taken from
    nresolve,       \* number of get_stream_url calls of this client request
    resolved,       \* media IDs a completed call resolved, no 403 since
    redundant,      \* an upstream request was issued for an ID in resolved
    ops             \* number of client requests made so far

resolverVars == << cookie_file, svc_proxies, cache, call, started, sent, sawUnusable,
                   lastFailure, inflight, firstSuccess, sentAfterSuccess, accepted, nresolve,
                   resolved, redundant, ops >>

IdleCall ==
    [pc |-> "idle", video_id |-> "", caller |-> "", i |-> 1, attempt |-> 0,
     instance |-> 1, proxy |-> None, result |-> None]

\* AudioStreamingService.__init__: the cache starts empty.  The cookie and
\* the proxy list come from the configuration.
InitResolverVars ==
    /\ cookie_file \in BOOLEAN
    /\ svc_proxies \in { {}, {"proxy1"} }
    /\ cache = [v \in MediaIds |-> None]
    /\ call = IdleCall
    /\ started = << >>
    /\ sent = 0
    /\ sawUnusable = FALSE
    /\ lastFailure = None
    /\ inflight = {}
    /\ firstSuccess = None
    /\ sentAfterSuccess = FALSE
    /\ accepted = None
    /\ nresolve = 0
    /\ resolved = {}
    /\ redundant = FALSE
    /\ ops = 0

\* The stream info dict a strategy returns.
StreamInfo(url, bitrate, strategy) ==
    [url |-> url, bitrate |-> bitrate, strategy |-> strategy]

\* Entry of get_stream_url(video_id): nothing is looked up in self.cache.
BeginCall(video_id, caller) ==
    /\ call' = [IdleCall EXCEPT !.pc = "loop", !.video_id = video_id, !.caller = caller]
    /\ started' = << >>
    /\ sent' = 0
    /\ sawUnusable' = FALSE
    /\ lastFailure' = None
    /\ inflight' = {}
    /\ firstSuccess' = None
    /\ sentAfterSuccess' = FALSE
    /\ accepted' = None
    /\ UNCHANGED << cookie_file, svc_proxies, cache, redundant >>

\* The caller has taken the value get_stream_url returned.
EndCall ==
    /\ call' = IdleCall
    /\ started' = << >>
    /\ sent' = 0
    /\ sawUnusable' = FALSE
    /\ lastFailure' = None
    /\ inflight' = {}
    /\ firstSuccess' = None
    /\ sentAfterSuccess' = FALSE
    /\ accepted' = None
    /\ UNCHANGED << cookie_file, svc_proxies, cache, nresolve, resolved, redundant >>

CurrentStrategy == strategies[call.i]

\* get_stream_url: "result = await strategy(video_id)" of the next iteration
strategy_start ==
    /\ call.pc = "loop"
    /\ call.i <= Len(strategies)
    /\ call' = [call EXCEPT !.pc = "strategy", !.attempt = 0, !.instance = 1]
    /\ started' = Append(started, CurrentStrategy)
    /\ inflight' = inflight \cup {CurrentStrategy}
    /\ sent' = 0
    /\ sawUnusable' = FALSE
    /\ UNCHANGED << cookie_file, svc_proxies, cache, lastFailure, firstSuccess,
                    sentAfterSuccess, accepted, nresolve, resolved, redundant, ops >>

\* Mutation of ExhaustedResult: an empty stream info instead of None.
ExhaustedResult_EmptyInfo == Some([url |-> None])

\* What get_stream_url returns once the loop has run out of strategies.
ExhaustedResult == None

\* get_stream_url: the loop is over, "return None"
all_strategies_failed ==
    /\ call.pc = "loop"
    /\ call.i > Len(strategies)
    /\ call' = [call EXCEPT !.pc = "done", !.result = ExhaustedResult]
    /\ UNCHANGED << cookie_file, svc_proxies, cache, started, sent, sawUnusable, lastFailure,
                    inflight, firstSuccess, sentAfterSuccess, accepted, nresolve, resolved,
                    redundant, ops >>

\* get_stream_url: "if result and result.get('url')"
HasUrl(result) == result # None /\ result[1].url # None

\* Mutation of AfterStrategy: the loop goes on after a success.
AfterStrategy_NoReturn(result) == "loop"

\* get_stream_url: where the loop goes with a strategy's result: it returns
\* the result at once when it has a URL, else it tries the next strategy.
AfterStrategy(result) == IF HasUrl(result) THEN "done" ELSE "loop"

\* Every strategy of this call that has failed so far ended in the except
\* clause of get_stream_url.
OnlyRaisedSoFar == lastFailure = None \/ lastFailure[1].allRaised

\* The current strategy returns result to the loop of get_stream_url; how
\* tells the way it ended: "url", "unusable" (a 200 without a usable
\* stream), "exhausted" (its loops ran out), "error" (its one request
\* raised), "no_cookie", or "raised" (an exception left the strategy).
StrategyReturn(result, how, unusable200) ==
    /\ inflight' = inflight \ {CurrentStrategy}
    /\ lastFailure' =
          IF HasUrl(result) THEN lastFailure
          ELSE Some([strategy |-> CurrentStrategy, how |-> how, sent |-> sent,
                     sawUnusable |-> unusable200,
                     allRaised |-> OnlyRaisedSoFar /\ how = "raised"])
    /\ sawUnusable' = unusable200
    /\ firstSuccess' =
          IF HasUrl(result) /\ firstSuccess = None
          THEN Some([strategy |-> CurrentStrategy, result |-> result])
          ELSE firstSuccess
    /\ IF AfterStrategy(result) = "done"
       THEN /\ call' = [call EXCEPT !.pc = "done", !.result = result]
            /\ resolved' = resolved \cup {call.video_id}
       ELSE /\ call' = [call EXCEPT !.pc = "loop", !.i = call.i + 1]
            /\ UNCHANGED resolved

\* One upstream request of the current strategy goes out.
Send(proxy) ==
    /\ call' = [call EXCEPT !.pc = "await", !.proxy = proxy]
    /\ sent' = sent + 1
    /\ redundant' = (redundant \/ call.video_id \in resolved)
    /\ sentAfterSuccess' = (sentAfterSuccess \/ firstSuccess # None)
    /\ UNCHANGED accepted
    /\ UNCHANGED << cookie_file, svc_proxies, cache, started, sawUnusable, lastFailure,
                    inflight, firstSuccess, nresolve, resolved, ops >>

\* Mutation of RandomProxyChoices: with no proxy configured the request is
\* given a proxy that does not exist.
RandomProxyChoices_NeverDirect ==
    IF svc_proxies = {} THEN {Some("unconfigured")} ELSE {Some(p) : p \in svc_proxies}

\* AudioStreamingService._get_random_proxy: None, or any of self.proxies
RandomProxyChoices ==
    IF svc_proxies = {} THEN {None} ELSE {Some(p) : p \in svc_proxies}

\* Variables a strategy's response leaves alone.
ResponseFrame == UNCHANGED << cookie_file, svc_proxies, cache, started, sent,
                              sentAfterSuccess, accepted, nresolve, redundant, ops >>

\* The strategy's loop goes round again: nothing returns yet.
NoReturn(unusable200) ==
    /\ sawUnusable' = unusable200
    /\ UNCHANGED << inflight, lastFailure, firstSuccess, resolved >>

\* Mutation of HasCookieFile: the extraction runs without a cookie file.
HasCookieFile_Always == TRUE

\* _try_yt_dlp_authenticated: the test of "if not self.cookie_file"
HasCookieFile == cookie_file

\* _try_yt_dlp_authenticated: "if not self.cookie_file: return None"
yt_dlp_no_cookie_file ==
    /\ call.pc = "strategy"
    /\ CurrentStrategy = "_try_yt_dlp_authenticated"
    /\ ~ HasCookieFile
    /\ StrategyReturn(None, "no_cookie", FALSE)
    /\ ResponseFrame

\* _try_yt_dlp_authenticated: ydl.extract_info runs in the executor
yt_dlp_extract_info ==
    /\ call.pc = "strategy"
    /\ CurrentStrategy = "_try_yt_dlp_authenticated"
    /\ HasCookieFile
    /\ Send(None)

\* _try_yt_dlp_authenticated: the extraction raised or timed out ("error"),
\* gave an info without url ("no_url"), or gave a url ("ok").
yt_dlp_result(outcome) ==
    /\ call.pc = "await"
    /\ CurrentStrategy = "_try_yt_dlp_authenticated"
    /\ CASE outcome = "ok" ->
              StrategyReturn(Some(StreamInfo(Some(<< "signed", nresolve >>), None,
                                             "yt_dlp_authenticated")), "url", FALSE)
         [] outcome = "no_url" -> StrategyReturn(None, "unusable", TRUE)
         [] OTHER -> StrategyReturn(None, "error", FALSE)
    /\ ResponseFrame

IsInnertube(strategy) == ClientName(strategy) # "none"

\* _try_innertube_client: client.post(url, ...) of one loop iteration
innertube_post ==
    /\ call.pc = "strategy"
    /\ IsInnertube(CurrentStrategy)
    /\ \E proxy \in RandomProxyChoices : Send(proxy)

\* Mutation of InnertubeLoopGoesOn: one iteration too many.
InnertubeLoopGoesOn_OffByOne(attempt) == attempt + 1 <= INNERTUBE_ATTEMPTS

\* _try_innertube_client: "for attempt in range(3)" has another iteration
\* after the one numbered attempt.
InnertubeLoopGoesOn(attempt) == attempt + 1 < INNERTUBE_ATTEMPTS

\* _try_innertube_client: the request raised or timed out, the status was
\* not 200, or the body was not JSON ("continue"); after the last iteration
\* the strategy returns None.
innertube_failure ==
    /\ call.pc = "await"
    /\ IsInnertube(CurrentStrategy)
    /\ IF InnertubeLoopGoesOn(call.attempt)
       THEN /\ call' = [call EXCEPT !.pc = "strategy", !.attempt = call.attempt + 1]
            /\ NoReturn(sawUnusable)
       ELSE StrategyReturn(None, "exhausted", sawUnusable)
    /\ ResponseFrame

\* _try_innertube_client: status 200: the strategy returns whatever
\* _extract_stream_url_from_innertube makes of the body.
innertube_200(body) ==
    /\ call.pc = "await"
    /\ IsInnertube(CurrentStrategy)
    /\ LET result == extract_stream_url_from_innertube(body, ClientName(CurrentStrategy)) IN
       IF result = None
       THEN StrategyReturn(None, "unusable", TRUE)
       ELSE StrategyReturn(result, "url", sawUnusable)
    /\ ResponseFrame

\* _try_cobalt_api: client.post(instance, ...) of one loop iteration
cobalt_post ==
    /\ call.pc = "strategy"
    /\ CurrentStrategy = "_try_cobalt_api"
    /\ \E proxy \in RandomProxyChoices : Send(proxy)

\* _try_cobalt_api: the two nested loops move on: next attempt, then next
\* instance, then "return None".
CobaltNext(unusable200) ==
    IF call.attempt + 1 < COBALT_ATTEMPTS
    THEN /\ call' = [call EXCEPT !.pc = "strategy", !.attempt = call.attempt + 1]
         /\ NoReturn(unusable200)
    ELSE IF call.instance < Len(cobalt_instances)
         THEN /\ call' = [call EXCEPT !.pc = "strategy", !.attempt = 0,
                                      !.instance = call.instance + 1]
              /\ NoReturn(unusable200)
         ELSE StrategyReturn(None, "exhausted", unusable200)

\* What a Cobalt instance may answer a POST with: status_code 0 stands for
\* a request that raised or timed out; status is the "status" field of the
\* JSON body and hasUrl tells whether the body has a "url".
CobaltResponses ==
    { [status_code |-> 0, status |-> "", hasUrl |-> FALSE],
      [status_code |-> 500, status |-> "", hasUrl |-> FALSE] }
    \cup [status_code : {200},
          status : {"stream", "redirect", "tunnel", "error", "picker"},
          hasUrl : BOOLEAN]

\* Mutation of CobaltUsable: any 200 with a url is taken.
CobaltUsable_AnyStatus(response) ==
    response.status_code = 200 /\ response.hasUrl

\* _try_cobalt_api: 'response.status_code == 200', 'data.get("status") in
\* ["stream", "redirect", "tunnel"]' and 'if url'
CobaltUsable(response) ==
    /\ response.status_code = 200
    /\ response.status \in {"stream", "redirect", "tunnel"}
    /\ response.hasUrl

\* What is kept of the response a URL was taken from: its status code,
\* whether the status field of its body is stream, redirect or tunnel, and
\* whether the body has a url.
ReadOf(response) ==
    [status_code |-> response.status_code,
     streams |-> response.status \in {"stream", "redirect", "tunnel"},
     hasUrl |-> response.hasUrl]

\* _try_cobalt_api: the response.  A usable one is returned as the stream
\* info, with the url of the body; after any other the loops move on.
cobalt_response(response) ==
    /\ call.pc = "await"
    /\ CurrentStrategy = "_try_cobalt_api"
    /\ IF CobaltUsable(response)
       THEN /\ StrategyReturn(Some(StreamInfo(Some(<< "signed", nresolve >>), None,
                                              "cobalt_api")), "url", sawUnusable)
            /\ accepted' = Some(ReadOf(response))
       ELSE /\ CobaltNext(sawUnusable \/ response.status_code = 200)
            /\ UNCHANGED accepted
    /\ UNCHANGED << cookie_file, svc_proxies, cache, started, sent, sentAfterSuccess,
                    nresolve, redundant, ops >>

\* _try_piped_fallback: client.get(api_url) for the next instance
piped_get ==
    /\ call.pc = "strategy"
    /\ CurrentStrategy = "_try_piped_fallback"
    /\ Send(None)

\* _try_piped_fallback: the response.  "error": the request raised;
\* "non200"; "200_incomplete": no title, duration, audio stream or url;
\* "200_ok": the best audio stream has a url.
piped_response(outcome) ==
    /\ call.pc = "await"
    /\ CurrentStrategy = "_try_piped_fallback"
    /\ IF outcome = "200_ok"
       THEN StrategyReturn(Some(StreamInfo(Some(<< "signed", nresolve >>), Some(1),
                                           << "piped_fallback", piped_instances[call.instance] >>)),
                           "url", sawUnusable)
       ELSE IF call.instance < Len(piped_instances)
            THEN /\ call' = [call EXCEPT !.pc = "strategy", !.instance = call.instance + 1]
                 /\ NoReturn(sawUnusable \/ outcome = "200_incomplete")
            ELSE StrategyReturn(None, "exhausted", sawUnusable \/ outcome = "200_incomplete")
    /\ ResponseFrame

\* Mutation of OnStrategyException: the exception leaves get_stream_url.
OnStrategyException_Propagate == "raise"

\* get_stream_url: "except Exception as e: logger.warning(...); continue"
OnStrategyException == "continue"

\* get_stream_url: "await strategy(video_id)" raised: an exception left the
\* strategy from the code that runs before its first request, outside the
\* strategy's own handlers.  The except clause of the loop logs it and goes
\* on with the next strategy.
strategy_raised ==
    /\ call.pc = "strategy"
    /\ sent = 0
    /\ IF OnStrategyException = "continue"
       THEN StrategyReturn(None, "raised", sawUnusable)
       ELSE /\ call' = [call EXCEPT !.pc = "raised"]
            /\ NoReturn(sawUnusable)
    /\ ResponseFrame

(***************************************************************************)
(*                   STREAMING RELAY (stream_youtube)                      *)
(***************************************************************************)

\* Mutation of max_retries: one retry more.
max_retries_Four == 3 + 1

\* stream_youtube: "max_retries = 3"
max_retries == 3

\* Values of the caller's Range header (None: no header).
RangeHeaders == { None, Some("bytes=0-99") }

\* Status codes the upstream byte source answers with.
UpstreamStatuses == { 200, 206, 403, 404 }

\* Values of the caller's Origin header (None: no header).
Origins == { None, Some("http://localhost:3000") }

VARIABLES
    relay,      \* the stream_youtube call in progress, and its response
    fetchLog    \* the upstream GETs of this call: url, Range sent, status

relayVars == << relay, fetchLog >>

IdleRelay ==
    [pc |-> "idle", video_id |-> "", range_header |-> None, retry_count |-> 0,
     stream_info |-> None, stream_url |-> None, resolves |-> 0,
     status |-> 0, content_range |-> None, cors |-> FALSE, body |-> "none",
     allow_origin |-> [o \in Origins |-> None]]

InitRelayVars ==
    /\ relay = IdleRelay
    /\ fetchLog = << >>

\* The structured error the service wired into main.py returns when the
\* upstream rejects the request for content protection.
protection_result ==
    Some([error |-> Some("YOUTUBE_PROTECTION"),
          error_message |-> Some("Content temporarily unavailable")])

\* dict.get(key): None when the key is absent
Get(d, key) == IF key \in DOMAIN d THEN d[key] ELSE None

\* What stream_youtube reads of a stream_info dict: url and error.
Seen(stream_info) ==
    IF stream_info = None THEN None
    ELSE Some([url |-> Get(stream_info[1], "url"), error |-> Get(stream_info[1], "error")])

\* Mutation of add_cors_headers: the headers of the response are left as
\* the handler made them.
add_cors_headers_KeepHandlers(origin, allow_origin) == allow_origin

\* add_cors_headers, the "http" middleware every response goes through:
\* 'response.headers["Access-Control-Allow-Origin"] = "*"', whatever the
\* request's Origin and whatever the response carried.
add_cors_headers(origin, allow_origin) == Some("*")

\* The response r leaves the application: the Access-Control-Allow-Origin
\* header the handler set (r.cors), then the middleware; allow_origin is
\* the header the caller receives, for each Origin its request may carry.
Respond(r) ==
    [r EXCEPT !.allow_origin =
        [o \in Origins |-> add_cors_headers(o, IF r.cors THEN Some("*") ELSE None)]]

\* raise HTTPException(status, ...)
HttpError(status) ==
    relay' = Respond([relay EXCEPT !.pc = "done", !.status = status, !.body = "error",
                                   !.content_range = None, !.cors = FALSE])

\* A client request may start when the previous one is over.
ClientIdle ==
    /\ relay.pc \in {"idle", "done"}
    /\ call.pc = "idle" \/ (call.pc = "done" /\ call.caller = "client")
    /\ ops < MaxOps

\* A client of the service calls get_stream_url(video_id) directly.
client_resolve(video_id) ==
    /\ ClientIdle
    /\ ops' = ops + 1
    /\ BeginCall(video_id, "client")
    /\ nresolve' = 1
    /\ UNCHANGED resolved
    /\ relay' = IdleRelay
    /\ fetchLog' = << >>

\* stream_youtube: the password check, then the first get_stream_url.
stream_youtube_request(video_id, range_header, authorized) ==
    /\ ClientIdle
    /\ ops' = ops + 1
    /\ fetchLog' = << >>
    /\ IF ~ authorized
       THEN /\ relay' = Respond([IdleRelay EXCEPT !.pc = "done", !.video_id = video_id,
                                                  !.range_header = range_header,
                                                  !.status = 401, !.body = "error"])
            /\ EndCall
       ELSE /\ relay' = [IdleRelay EXCEPT !.pc = "resolving", !.video_id = video_id,
                                          !.range_header = range_header, !.resolves = 1]
            /\ BeginCall(video_id, "relay")
            /\ nresolve' = 1
            /\ UNCHANGED resolved

\* The service answers the relay's get_stream_url with the structured
\* content-protection error instead of a stream info.
service_protection_error ==
    /\ call.pc = "loop"
    /\ call.i = 1
    /\ call.caller = "relay"
    /\ call' = [call EXCEPT !.pc = "done", !.result = protection_result]
    /\ UNCHANGED << cookie_file, svc_proxies, cache, started, sent, sawUnusable, lastFailure,
                    inflight, firstSuccess, sentAfterSuccess, accepted, nresolve, resolved,
                    redundant, ops >>
    /\ UNCHANGED relayVars

\* Mutation of ResolveFailureStatus: the protection error is not told apart.
ResolveFailureStatus_Always503(stream_info) ==
    IF stream_info = None \/ stream_info[1].url = None THEN 503 ELSE 0

\* stream_youtube, after the first get_stream_url: the HTTP error the
\* result is turned into (0: none, the result has a url).
ResolveFailureStatus(stream_info) ==
    IF stream_info = None THEN 503
    ELSE IF stream_info[1].error = Some("YOUTUBE_PROTECTION") THEN 451
    ELSE IF stream_info[1].url = None THEN 503
    ELSE 0

\* stream_youtube: the first get_stream_url has returned.
relay_resolved ==
    /\ relay.pc = "resolving"
    /\ call.pc = "done" /\ call.caller = "relay"
    /\ LET stream_info == Seen(call.result) IN
       IF ResolveFailureStatus(stream_info) # 0
       THEN relay' = Respond([relay EXCEPT !.pc = "done", !.stream_info = stream_info,
                                           !.status = ResolveFailureStatus(stream_info),
                                           !.body = "error"])
       ELSE relay' = [relay EXCEPT !.pc = "fetch", !.stream_info = stream_info,
                                   !.stream_url = stream_info[1].url,
                                   !.retry_count = 0]
    /\ EndCall
    /\ UNCHANGED << fetchLog, ops >>

\* The Range header of the upstream request: "if range_header:
\* headers['Range'] = range_header", set once before the retry loop.
UpstreamRange == relay.range_header

\* stream_youtube: "response = await client.get(stream_url, headers=headers)"
upstream_get ==
    /\ relay.pc = "fetch"
    /\ relay' = [relay EXCEPT !.pc = "fetching"]
    /\ fetchLog' = Append(fetchLog, [url |-> relay.stream_url, range |-> UpstreamRange,
                                     status |-> 0])
    /\ UNCHANGED resolverVars

\* The upstream's Content-Range header: a 206 answers the Range it was sent.
UpstreamContentRange(status) ==
    IF status = 206 THEN fetchLog[Len(fetchLog)].range ELSE None

LogStatus(status) == [fetchLog EXCEPT ![Len(fetchLog)].status = status]

\* Mutation of CanRetry: the bound of the retry test is off by one.
CanRetry_OffByOne(retry_count) == retry_count <= max_retries

\* stream_youtube: "response.status_code == 403 and retry_count < max_retries"
CanRetry(retry_count) == retry_count < max_retries

\* stream_youtube: the upstream answered 403.
upstream_403 ==
    /\ relay.pc = "fetching"
    /\ fetchLog' = LogStatus(403)
    /\ IF CanRetry(relay.retry_count)
       THEN /\ relay' = [relay EXCEPT !.pc = "reresolving",
                                      !.retry_count = relay.retry_count + 1,
                                      !.resolves = relay.resolves + 1]
            /\ BeginCall(relay.video_id, "relay")
            /\ nresolve' = nresolve + 1
            /\ resolved' = resolved \ {relay.video_id}
            /\ UNCHANGED ops
       ELSE /\ HttpError(403)
            /\ resolved' = resolved \ {relay.video_id}
            /\ UNCHANGED << cookie_file, svc_proxies, cache, call, started, sent,
                            sawUnusable, lastFailure, inflight, firstSuccess,
                            sentAfterSuccess, accepted, nresolve, redundant, ops >>

\* stream_youtube: the upstream answered with another status: it is passed
\* on with the body, Content-Range when present, and the CORS headers.
upstream_response(status) ==
    /\ relay.pc = "fetching"
    /\ status # 403
    /\ (status = 206 => UpstreamRange # None)
    /\ fetchLog' = LogStatus(status)
    /\ relay' = Respond([relay EXCEPT !.pc = "done", !.status = status,
                                      !.body = "upstream",
                                      !.content_range = UpstreamContentRange(status),
                                      !.cors = TRUE])
    /\ UNCHANGED resolverVars

\* Mutation of TransportErrorRetried: a transport error is retried like a 403.
TransportErrorRetried_Like403(retry_count) == retry_count < max_retries

\* stream_youtube: the only handler inside the loop is "except
\* httpx.HTTPStatusError", which has the retry; a timeout or a connection
\* error is not one, so it leaves the loop whatever retry_count is.
TransportErrorRetried(retry_count) == FALSE

\* stream_youtube: client.get raised (timeout, connection error): the outer
\* "except Exception" turns it into a 503.
upstream_exception ==
    /\ relay.pc = "fetching"
    /\ fetchLog' = LogStatus(0 - 1)
    /\ IF TransportErrorRetried(relay.retry_count)
       THEN /\ relay' = [relay EXCEPT !.pc = "reresolving",
                                      !.retry_count = relay.retry_count + 1,
                                      !.resolves = relay.resolves + 1]
            /\ BeginCall(relay.video_id, "relay")
            /\ nresolve' = nresolve + 1
            /\ resolved' = resolved \ {relay.video_id}
            /\ UNCHANGED ops
       ELSE /\ HttpError(503)
            /\ UNCHANGED resolverVars

\* Mutation of LoopGoesOn: the loop stops one round early.
LoopGoesOn_Strict(retry_count) == retry_count < max_retries

\* stream_youtube: "while retry_count <= max_retries"
LoopGoesOn(retry_count) == retry_count <= max_retries

\* Mutation of RetryUrl: the retry goes to the URL that was just refused.
RetryUrl_KeepsOld(stream_url, stream_info) == stream_url

\* stream_youtube, after the get_stream_url of a retry:
\* 'stream_url = stream_info["url"]'
RetryUrl(stream_url, stream_info) == stream_info[1].url

\* stream_youtube: the get_stream_url made after a 403 has returned.
relay_reresolved ==
    /\ relay.pc = "reresolving"
    /\ call.pc = "done" /\ call.caller = "relay"
    /\ LET stream_info == Seen(call.result) IN
       IF stream_info # None /\ stream_info[1].url # None
       THEN IF LoopGoesOn(relay.retry_count)
            THEN relay' = [relay EXCEPT !.pc = "fetch", !.stream_info = stream_info,
                                        !.stream_url = RetryUrl(relay.stream_url,
                                                                stream_info)]
            ELSE \* the loop ends and the handler returns None: a 200, null body
                 relay' = Respond([relay EXCEPT !.pc = "done", !.stream_info = stream_info,
                                                !.stream_url = RetryUrl(relay.stream_url,
                                                                        stream_info),
                                                !.status = 200, !.body = "null"])
       ELSE relay' = Respond([relay EXCEPT !.pc = "done", !.stream_info = stream_info,
                                           !.status = 503, !.body = "error"])
    /\ EndCall
    /\ UNCHANGED << fetchLog, ops >>

(***************************************************************************)
(*              PROXY POOL UNDER CONCURRENT CALLERS                        *)
(* Tasks call get_proxy, mark_success and mark_failure on one pool.  Each  *)
(* call waits at "async with self._lock"; the statements of its body are   *)
(* taken as steps of their own, a read of a field apart from the write     *)
(* that follows it, so that the lock alone keeps the bodies apart.         *)
(***************************************************************************)

\* The concurrent callers.
Tasks == {1, 2}
\* Calls each task makes.
MaxCalls == 2

VARIABLES
    lock,       \* self._lock: None, or Some(task holding it)
    task,       \* per task: position in its call, arguments and locals
    expected,   \* per proxy: the failure count the completed reports add up to
    staleStamp, \* a get_proxy stamped a proxy that was no longer the pick
    held        \* per proxy: the get_proxy returns its callers have not reported on yet

taskVars == << lock, task, expected, staleStamp, held >>

IdleTask ==
    [pc |-> "idle", op |-> "none", proxy |-> None, response_time |-> 0,
     read |-> 0, calls |-> 0]

IdleTaskVars ==
    /\ lock = None
    /\ task = [t \in Tasks |-> IdleTask]
    /\ expected = [p \in Proxies |-> 0]
    /\ staleStamp = FALSE
    /\ held = [p \in Proxies |-> 0]

\* The statements of the bodies, between acquiring and releasing the lock.
BodyPcs == {"select", "stamp", "success_read", "success_write",
            "failure_read", "failure_write"}

\* The tasks inside a body, between acquiring and releasing the lock.
InBody == {t \in Tasks : task[t].pc \in BodyPcs}

\* Time passes between the bodies: a body has no await and runs in well
\* under a clock step.
TickBetweenBodies == InBody = {} /\ Tick

\* A task calls get_proxy().
call_get_proxy(t) ==
    /\ task[t].pc = "idle"
    /\ task[t].calls < MaxCalls
    /\ task' = [task EXCEPT ![t] = [IdleTask EXCEPT !.pc = "acquire", !.op = "get_proxy",
                                                    !.calls = task[t].calls + 1]]
    /\ UNCHANGED << lock, expected, staleStamp, poolVars >>

\* A task calls mark_success(proxy, response_time).
call_mark_success(t, proxy, response_time) ==
    /\ task[t].pc = "idle"
    /\ task[t].calls < MaxCalls
    /\ successes < MaxSuccesses
    /\ successes' = successes + 1
    /\ task' = [task EXCEPT ![t] = [IdleTask EXCEPT !.pc = "acquire", !.op = "mark_success",
                                                    !.proxy = Some(proxy),
                                                    !.response_time = response_time,
                                                    !.calls = task[t].calls + 1]]
    /\ UNCHANGED << lock, expected, staleStamp, proxies, failures, last_used, last_success,
                    avg_response_time, now, lastCall, samples, recovered >>

\* A task calls mark_failure(proxy, error).
call_mark_failure(t, proxy) ==
    /\ task[t].pc = "idle"
    /\ task[t].calls < MaxCalls
    /\ task' = [task EXCEPT ![t] = [IdleTask EXCEPT !.pc = "acquire", !.op = "mark_failure",
                                                    !.proxy = Some(proxy),
                                                    !.calls = task[t].calls + 1]]
    /\ UNCHANGED << lock, expected, staleStamp, poolVars >>

\* Mutation of LockFree: the lock does not keep a second task out.
LockFree_NotExclusive == TRUE

\* asyncio.Lock.acquire: the lock is handed out when nobody holds it.
LockFree == lock = None

\* "async with self._lock:" entered
lock_acquire(t) ==
    /\ task[t].pc = "acquire"
    /\ LockFree
    /\ lock' = Some(t)
    /\ task' = [task EXCEPT ![t].pc =
                   CASE task[t].op = "get_proxy" -> "select"
                     [] task[t].op = "mark_success" -> "success_read"
                     [] OTHER -> "failure_read"]
    /\ UNCHANGED << expected, staleStamp, poolVars >>

\* "async with self._lock:" left
Release(t) == lock' = IF lock = Some(t) THEN None ELSE lock

\* The proxy get_proxy picks in the current state (None: no healthy proxy).
Pick ==
    LET healthy_proxies == {p \in proxies : is_healthy(p)} IN
    IF healthy_proxies = {} THEN None ELSE Some(BestProxy(healthy_proxies))

\* get_proxy: filter, "return None" or sort and "proxy = healthy_proxies[0]"
get_proxy_select(t) ==
    /\ task[t].pc = "select"
    /\ IF Pick = None
       THEN /\ task' = [task EXCEPT ![t].pc = "idle"]
            /\ Release(t)
       ELSE /\ task' = [task EXCEPT ![t].pc = "stamp", ![t].proxy = Pick]
            /\ UNCHANGED lock
    /\ UNCHANGED << expected, staleStamp, poolVars >>

\* get_proxy: "proxy.last_used = datetime.now()", "return proxy"
get_proxy_stamp(t) ==
    /\ task[t].pc = "stamp"
    /\ last_used' = [last_used EXCEPT ![task[t].proxy[1]] = Some(now)]
    /\ staleStamp' = (staleStamp \/ task[t].proxy # Pick)
    /\ task' = [task EXCEPT ![t].pc = "idle"]
    /\ Release(t)
    /\ UNCHANGED << expected, proxies, failures, last_success, avg_response_time, now,
                    lastCall, successes, samples, recovered >>

\* mark_success: "proxy.last_success = datetime.now()" and the read of
\* proxy.failures in "max(0, proxy.failures - 1)"
mark_success_read(t) ==
    /\ task[t].pc = "success_read"
    /\ last_success' = [last_success EXCEPT ![task[t].proxy[1]] = Some(now)]
    /\ task' = [task EXCEPT ![t].pc = "success_write",
                            ![t].read = failures[task[t].proxy[1]]]
    /\ UNCHANGED << lock, expected, staleStamp, proxies, failures, last_used,
                    avg_response_time, now, lastCall, successes, samples, recovered >>

\* mark_success: the assignment to proxy.failures, then the average
mark_success_write(t) ==
    LET proxy == task[t].proxy[1] IN
    /\ task[t].pc = "success_write"
    /\ failures' = [failures EXCEPT ![proxy] = ReducedFailures(task[t].read)]
    /\ avg_response_time' =
          [avg_response_time EXCEPT ![proxy] =
              IF avg_response_time[proxy] = 0
              THEN task[t].response_time
              ELSE (7 * avg_response_time[proxy] + 3 * task[t].response_time) \div 10]
    /\ expected' = [expected EXCEPT ![proxy] = Max(0, expected[proxy] - 1)]
    /\ task' = [task EXCEPT ![t].pc = "idle"]
    /\ Release(t)
    /\ UNCHANGED << staleStamp, proxies, last_used, last_success, now, lastCall,
                    successes, samples, recovered >>

\* mark_failure: the read of proxy.failures in "proxy.failures += 1"
mark_failure_read(t) ==
    /\ task[t].pc = "failure_read"
    /\ task' = [task EXCEPT ![t].pc = "failure_write",
                            ![t].read = failures[task[t].proxy[1]]]
    /\ UNCHANGED << lock, expected, staleStamp, poolVars >>

\* mark_failure: the write of "proxy.failures += 1"
mark_failure_write(t) ==
    LET proxy == task[t].proxy[1] IN
    /\ task[t].pc = "failure_write"
    /\ failures' = [failures EXCEPT ![proxy] = task[t].read + 1]
    /\ expected' = [expected EXCEPT ![proxy] = expected[proxy] + 1]
    /\ task' = [task EXCEPT ![t].pc = "idle"]
    /\ Release(t)
    /\ UNCHANGED << staleStamp, proxies, last_used, last_success, avg_response_time, now,
                    lastCall, successes, samples, recovered >>

(***************************************************************************)
(*        STREAMING RELAY OF ipod-music-app (stream_youtube)               *)
(* The handler of ipod-music-app/backend-python/main.py and the            *)
(* get_stream_url of its services/audio_streaming_service.py.              *)
(***************************************************************************)

\* Chunks the upstream body is streamed in.
MaxChunks == 2

\* get_stream_url: the watch URLs tried, in order.
ipod_urls == << "music.youtube.com", "www.youtube.com" >>

VARIABLES
    ipod        \* the stream_youtube call in progress, and its response

ipodVars == << ipod >>

IdleIpod ==
    [pc |-> "idle", video_id |-> "", range_header |-> None, url_index |-> 0,
     stream_url |-> None, status |-> 0, body |-> "none", fetches |-> << >>,
     chunks |-> 0, requests |-> 0]

IdleIpodVars == ipod = IdleIpod

\* raise HTTPException(status, ...)
IpodHttpError(status) ==
    ipod' = [ipod EXCEPT !.pc = "done", !.status = status, !.body = "error"]

\* stream_youtube: the password check, then get_stream_url is called.  The
\* handler declares no Range parameter: a Range header the caller sends is
\* not read.
ipod_stream_youtube_request(video_id, range_header, authorized) ==
    /\ ipod.pc \in {"idle", "done"}
    /\ ipod.requests < MaxOps
    /\ LET fresh == [IdleIpod EXCEPT !.video_id = video_id, !.range_header = range_header,
                                     !.requests = ipod.requests + 1] IN
       IF ~ authorized
       THEN ipod' = [fresh EXCEPT !.pc = "done", !.status = 401, !.body = "error"]
       ELSE ipod' = [fresh EXCEPT !.pc = "extract", !.url_index = 1]

\* stream_youtube, after get_stream_url: "if not stream_info or not
\* stream_info.get('url'): raise HTTPException(503, ...)", else the
\* StreamingResponse is returned: status 200, Accept-Ranges: bytes.
IpodAfterResolve(url) ==
    IF url = None
    THEN IpodHttpError(503)
    ELSE ipod' = [ipod EXCEPT !.pc = "responded", !.stream_url = url, !.status = 200,
                              !.body = "stream"]

\* get_stream_url: _extract_info(url) returned for the current watch URL.
\* An info is formatted and returned at once, with or without a URL; None
\* or an exception moves on to the next watch URL, None after the last.
ipod_extract_info(outcome) ==
    /\ ipod.pc = "extract"
    /\ CASE outcome = "info_with_url" ->
              IpodAfterResolve(Some(<< "signed", ipod.video_id >>))
         [] outcome = "info_without_audio" ->
              IpodAfterResolve(None)
         [] OTHER ->
              IF ipod.url_index < Len(ipod_urls)
              THEN ipod' = [ipod EXCEPT !.url_index = ipod.url_index + 1]
              ELSE IpodAfterResolve(None)

\* stream_generator: client.stream("GET", stream_url) is given no headers.
IpodUpstreamRange == None

\* stream_generator: 'client.stream("GET", stream_url)'
ipod_upstream_get ==
    /\ ipod.pc = "responded"
    /\ ipod' = [ipod EXCEPT !.pc = "fetching",
                            !.fetches = Append(ipod.fetches,
                                               [url |-> ipod.stream_url,
                                                range |-> IpodUpstreamRange,
                                                status |-> 0])]

\* stream_generator: the upstream answered; its status is not looked at.
ipod_upstream_response(status) ==
    /\ ipod.pc = "fetching"
    /\ status = 206 => IpodUpstreamRange # None
    /\ ipod' = [ipod EXCEPT !.pc = "streaming",
                            !.fetches = [ipod.fetches EXCEPT ![Len(ipod.fetches)].status =
                                             status]]

\* stream_generator: "yield chunk"
ipod_yield_chunk ==
    /\ ipod.pc = "streaming"
    /\ ipod.chunks < MaxChunks
    /\ ipod' = [ipod EXCEPT !.chunks = ipod.chunks + 1]

\* stream_generator: the upstream body is over.
ipod_stream_end ==
    /\ ipod.pc = "streaming"
    /\ ipod' = [ipod EXCEPT !.pc = "done"]

\* stream_generator: client.stream or aiter_bytes raised; the response has
\* begun, the connection is dropped.
ipod_stream_exception ==
    /\ ipod.pc \in {"fetching", "streaming"}
    /\ ipod' = [ipod EXCEPT !.pc = "done", !.body = "aborted"]

(***************************************************************************)
(*                          DEVICE PAIRING                                 *)
(* pairing_service.py and the pair_* events of socket_handler.py.  The     *)
(* events are handled as asyncio tasks: a handler runs alone up to an      *)
(* "await" that suspends it, and others run in between.                    *)
(***************************************************************************)

\* PairingCode.__init__: "timedelta(minutes=5)"
CODE_TTL_MINUTES == 5

\* The devices that ask for a code; the Socket.IO sid of a device.
Devices == {"r1"}
Sid(device_id) == << "sid", device_id >>

\* The codes generate_code can draw (tokens stand for characters).
Codes == { << "A", "B" >>, << "C", "D" >> }

\* The code strings a web client sends: as issued, in lower case with
\* leading white space, and the empty string.
RawCodes == Codes \cup { << " ", "a", "b" >>, << >> }

\* The pair_submit requests handled at the same time.
Submitters == {1, 2}

\* str.upper
UpperChar(ch) ==
    CASE ch = "a" -> "A"
      [] ch = "b" -> "B"
      [] OTHER -> ch
Upper(s) == [k \in DOMAIN s |-> UpperChar(s[k])]

\* str.strip
RECURSIVE Strip(_)
Strip(s) ==
    IF s # << >> /\ Head(s) = " " THEN Strip(Tail(s))
    ELSE IF s # << >> /\ s[Len(s)] = " " THEN Strip(SubSeq(s, 1, Len(s) - 1))
    ELSE s

\* "code.upper().strip()"
Normalise(code) == Strip(Upper(code))

VARIABLES
    active_codes,   \* self.active_codes: per code None, or Some(PairingCode)
    device_sockets, \* self.device_sockets: device_id -> socket id
    submit,         \* per pair_submit handler: where it is, and its code
    reply,          \* the last event emitted to the requesting client
    lastValidate,   \* the validate_code call of the last step, and its result
    delivered,      \* per code: pair_credentials events sent since it was issued
    answered,       \* per code: success answers given since it was issued
    marked,         \* codes mark_code_used was called for since they were issued
    markedEver,     \* codes mark_code_used was ever called for
    expiry          \* per code: the expires_at of its latest issue

pairVars == << active_codes, device_sockets, submit, reply, lastValidate, delivered,
              answered, marked, markedEver, expiry >>

IdleSubmit == [pc |-> "idle", code |-> << >>]

NoReply == [event |-> "none", ok |-> FALSE, error |-> ""]

\* PairingService.__init__, and no event handled yet
InitPairVars ==
    /\ active_codes = [c \in Codes |-> None]
    /\ device_sockets = [d \in Devices |-> None]
    /\ submit = [h \in Submitters |-> IdleSubmit]
    /\ reply = NoReply
    /\ lastValidate = None
    /\ delivered = [c \in Codes |-> 0]
    /\ answered = [c \in Codes |-> 0]
    /\ marked = {}
    /\ markedEver = {}
    /\ expiry = [c \in Codes |-> None]

\* The pairing service while another component runs.
IdlePairVars == InitPairVars

\* "code in self.active_codes"
InActive(code) == code \in Codes /\ active_codes[code] # None

\* PairingCode.__init__(code, device_id), then "pairing.device_socket_id =
\* socket_id"
PairingCode(device_id, socket_id) ==
    [device_id |-> device_id, expires_at |-> now + CODE_TTL_MINUTES, used |-> FALSE,
     device_socket_id |-> Some(socket_id)]

\* Mutation of is_valid: the code is still taken at its expiry time.
is_valid_AtExpiry(pairing) == ~ pairing.used /\ now <= pairing.expires_at

\* PairingCode.is_valid
is_valid(pairing) == ~ pairing.used /\ now < pairing.expires_at

\* PairingService.validate_code(code): (is_valid, error_message)
validate_code(code) ==
    LET c == Normalise(code) IN
    IF ~ InActive(c) THEN [valid |-> FALSE, error |-> "Invalid pairing code"]
    ELSE LET pairing == active_codes[c][1] IN
         IF ~ is_valid(pairing)
         THEN IF pairing.used
              THEN [valid |-> FALSE, error |-> "Code has already been used"]
              ELSE [valid |-> FALSE, error |-> "Code has expired"]
         ELSE [valid |-> TRUE, error |-> ""]

\* What is kept of a validate_code call: the code looked up and the result.
Validated(code) ==
    Some([code |-> Normalise(code), valid |-> validate_code(code).valid,
          error |-> validate_code(code).error])

\* PairingService.get_pairing(code)
get_pairing(code) ==
    IF InActive(Normalise(code)) THEN active_codes[Normalise(code)] ELSE None

\* pair_request: generate_code(device_id, sid) draws a code that is not in
\* active_codes and registers it; with no such code it raises and the
\* device gets pair_error.
pair_request(device_id) ==
    /\ IF \E code \in Codes : ~ InActive(code)
       THEN \E code \in Codes :
               /\ ~ InActive(code)
               /\ active_codes' = [active_codes EXCEPT
                                      ![code] = Some(PairingCode(device_id, Sid(device_id)))]
               /\ device_sockets' = [device_sockets EXCEPT ![device_id] = Some(Sid(device_id))]
               /\ reply' = [event |-> "pair_code", ok |-> TRUE, error |-> ""]
               /\ delivered' = [delivered EXCEPT ![code] = 0]
               /\ answered' = [answered EXCEPT ![code] = 0]
               /\ marked' = marked \ {code}
               /\ expiry' = [expiry EXCEPT ![code] = Some(now + CODE_TTL_MINUTES)]
       ELSE /\ reply' = [event |-> "pair_error", ok |-> FALSE,
                         error |-> "Failed to generate unique pairing code"]
            /\ UNCHANGED << active_codes, device_sockets, delivered, answered, marked,
                            expiry >>
    /\ lastValidate' = None
    /\ UNCHANGED << submit, markedEver >>

\* pair_validate: the code of the request is validated and the result sent
\* back.
pair_validate(code) ==
    /\ IF Normalise(code) = << >>
       THEN /\ reply' = [event |-> "pair_validate_result", ok |-> FALSE,
                         error |-> "Pairing code is required"]
            /\ lastValidate' = None
       ELSE /\ reply' = [event |-> "pair_validate_result",
                         ok |-> validate_code(Normalise(code)).valid,
                         error |-> validate_code(Normalise(code)).error]
            /\ lastValidate' = Validated(Normalise(code))
    /\ UNCHANGED << active_codes, device_sockets, submit, delivered, answered, marked,
                    markedEver, expiry >>

\* A pair_submit handler is answered with a failure and ends.
SubmitFails(h, error) ==
    /\ reply' = [event |-> "pair_submit_result", ok |-> FALSE, error |-> error]
    /\ submit' = [submit EXCEPT ![h] = [pc |-> "done", code |-> << >>]]
    /\ UNCHANGED delivered

\* pair_submit, from its start to the first await that suspends it: the
\* code is validated, the pairing and the cookie are looked at, and
\* pair_credentials is emitted to the device's socket.
pair_submit_begin(h, code, has_cookie) ==
    /\ submit[h].pc \in {"idle", "done"}
    /\ lastValidate' = Validated(Normalise(code))
    /\ IF ~ validate_code(Normalise(code)).valid
       THEN SubmitFails(h, validate_code(Normalise(code)).error)
       ELSE IF get_pairing(Normalise(code)) = None
       THEN SubmitFails(h, "Pairing not found")
       ELSE IF ~ has_cookie
       THEN SubmitFails(h, "YouTube Music cookie is required")
       ELSE IF get_pairing(Normalise(code))[1].device_socket_id = None
       THEN SubmitFails(h, "Device not connected")
       ELSE /\ delivered' = [delivered EXCEPT ![Normalise(code)] = @ + 1]
            /\ submit' = [submit EXCEPT ![h] = [pc |-> "storing", code |-> Normalise(code)]]
            /\ UNCHANGED reply
    /\ UNCHANGED << active_codes, device_sockets, answered, marked, markedEver, expiry >>

\* PairingService.mark_code_used(code)
mark_code_used(code) ==
    /\ active_codes' =
          IF InActive(Normalise(code))
          THEN [active_codes EXCEPT ![Normalise(code)] = Some([@[1] EXCEPT !.used = TRUE])]
          ELSE active_codes
    /\ marked' = marked \cup {Normalise(code)}
    /\ markedEver' = markedEver \cup {Normalise(code)}

\* pair_submit, resumed after the emit and the POST that stores the
\* credentials (whose failure is only logged): the code is marked used and
\* the web client is answered with success.
pair_submit_finish(h) ==
    /\ submit[h].pc = "storing"
    /\ mark_code_used(submit[h].code)
    /\ answered' = [answered EXCEPT ![submit[h].code] = @ + 1]
    /\ reply' = [event |-> "pair_submit_result", ok |-> TRUE, error |-> ""]
    /\ submit' = [submit EXCEPT ![h] = [pc |-> "done", code |-> << >>]]
    /\ lastValidate' = None
    /\ UNCHANGED << device_sockets, delivered, expiry >>

\* _cleanup_loop, one round after its sleep: the codes with
\* "pairing.expires_at < now" are deleted.
cleanup_loop ==
    LET expired == {c \in Codes : InActive(c) /\ active_codes[c][1].expires_at < now} IN
    /\ expired # {}
    /\ active_codes' = [c \in Codes |-> IF c \in expired THEN None ELSE active_codes[c]]
    /\ lastValidate' = None
    /\ UNCHANGED << device_sockets, submit, reply, delivered, answered, marked,
                    markedEver, expiry >>

\* Time passes between two steps of the handlers.
pairing_tick ==
    /\ Tick
    /\ lastValidate' = None
    /\ UNCHANGED << active_codes, device_sockets, submit, reply, delivered, answered,
                    marked, markedEver, expiry >>

vars == << poolVars, fmtVars, resolverVars, relayVars, taskVars, ipodVars, pairVars >>

\* Everything but the ipod-music-app handler.
otherThanIpod == << poolVars, fmtVars, resolverVars, relayVars, taskVars, pairVars >>

\* The format-selection variables while the pool runs.
IdleFormatVars ==
    /\ player_response = NoStreamingData
    /\ extracted = << "pending" >>

\* The resolver and relay variables while another component runs.
IdleResolverVars ==
    /\ cookie_file = FALSE
    /\ svc_proxies = {}
    /\ cache = [v \in MediaIds |-> None]
    /\ call = IdleCall
    /\ started = << >>
    /\ sent = 0
    /\ sawUnusable = FALSE
    /\ lastFailure = None
    /\ inflight = {}
    /\ firstSuccess = None
    /\ sentAfterSuccess = FALSE
    /\ accepted = None
    /\ nresolve = 0
    /\ resolved = {}
    /\ redundant = FALSE
    /\ ops = 0

InitPool ==
    /\ InitPoolVars /\ IdleFormatVars /\ IdleResolverVars /\ InitRelayVars
    /\ IdleTaskVars /\ IdleIpodVars /\ IdlePairVars

NextPool ==
    \/ get_proxy /\ UNCHANGED << fmtVars, resolverVars, relayVars, taskVars, ipodVars, pairVars >>
    \/ \E p \in proxies, t \in Latencies : mark_success(p, t)
          /\ UNCHANGED << fmtVars, resolverVars, relayVars, taskVars, ipodVars, pairVars >>
    \/ \E p \in proxies : mark_failure(p)
          /\ UNCHANGED << fmtVars, resolverVars, relayVars, taskVars, ipodVars, pairVars >>
    \/ Tick /\ UNCHANGED << fmtVars, resolverVars, relayVars, taskVars, ipodVars, pairVars >>

SpecPool == InitPool /\ [][NextPool]_vars

(***************************************************************************)
(* The pool of two proxies under concurrent callers.                       *)
(***************************************************************************)
InitTasks ==
    /\ InitPoolVars /\ proxies = Proxies
    /\ IdleTaskVars /\ IdleFormatVars /\ IdleResolverVars /\ InitRelayVars
    /\ IdleIpodVars /\ IdlePairVars

NextTasks ==
    \/ \E t \in Tasks : call_get_proxy(t)
          /\ UNCHANGED << fmtVars, resolverVars, relayVars, ipodVars, pairVars, held >>
    \/ \E t \in Tasks, p \in proxies, rt \in Latencies :
          call_mark_success(t, p, rt) /\ UNCHANGED << fmtVars, resolverVars, relayVars, ipodVars, pairVars, held >>
    \/ \E t \in Tasks, p \in proxies :
          call_mark_failure(t, p) /\ UNCHANGED << fmtVars, resolverVars, relayVars, ipodVars, pairVars, held >>
    \/ \E t \in Tasks : lock_acquire(t)
          /\ UNCHANGED << fmtVars, resolverVars, relayVars, ipodVars, pairVars, held >>
    \/ \E t \in Tasks : get_proxy_select(t)
          /\ UNCHANGED << fmtVars, resolverVars, relayVars, ipodVars, pairVars, held >>
    \/ \E t \in Tasks : get_proxy_stamp(t)
          /\ UNCHANGED << fmtVars, resolverVars, relayVars, ipodVars, pairVars, held >>
    \/ \E t \in Tasks : mark_success_read(t)
          /\ UNCHANGED << fmtVars, resolverVars, relayVars, ipodVars, pairVars, held >>
    \/ \E t \in Tasks : mark_success_write(t)
          /\ UNCHANGED << fmtVars, resolverVars, relayVars, ipodVars, pairVars, held >>
    \/ \E t \in Tasks : mark_failure_read(t)
          /\ UNCHANGED << fmtVars, resolverVars, relayVars, ipodVars, pairVars, held >>
    \/ \E t \in Tasks : mark_failure_write(t)
          /\ UNCHANGED << fmtVars, resolverVars, relayVars, ipodVars, pairVars, held >>
    \/ TickBetweenBodies /\ UNCHANGED << fmtVars, resolverVars, relayVars, taskVars, ipodVars, pairVars >>

SpecTasks == InitTasks /\ [][NextTasks]_vars

(***************************************************************************)
(* The pool with callers that report on the proxies they were given: a     *)
(* caller holds the proxy get_proxy returned until it reports on it.       *)
(***************************************************************************)
MaxHeld == 1

InitHeld ==
    /\ InitPoolVars /\ proxies = Proxies
    /\ IdleTaskVars /\ IdleFormatVars /\ IdleResolverVars /\ InitRelayVars
    /\ IdleIpodVars /\ IdlePairVars

\* A caller is given a proxy (or None) by get_proxy and keeps it.
holder_get_proxy ==
    /\ \A p \in proxies : held[p] < MaxHeld
    /\ get_proxy
    /\ held' = IF lastCall'.proxy = None THEN held
               ELSE [held EXCEPT ![lastCall'.proxy[1]] = @ + 1]
    /\ UNCHANGED << lock, task, expected, staleStamp >>

\* A caller reports the success of the proxy it holds.
holder_mark_success(p, response_time) ==
    /\ held[p] > 0
    /\ mark_success(p, response_time)
    /\ held' = [held EXCEPT ![p] = @ - 1]
    /\ UNCHANGED << lock, task, expected, staleStamp >>

\* A caller reports the failure of the proxy it holds.
holder_mark_failure(p) ==
    /\ held[p] > 0
    /\ mark_failure(p)
    /\ held' = [held EXCEPT ![p] = @ - 1]
    /\ UNCHANGED << lock, task, expected, staleStamp >>

\* mark_failure is public: a failure is reported for a proxy of
\* self.proxies that no get_proxy handed out.
other_mark_failure(p) ==
    /\ held[p] = 0
    /\ mark_failure(p)
    /\ UNCHANGED << lock, task, expected, staleStamp, held >>

NextHeld ==
    \/ holder_get_proxy /\ UNCHANGED << fmtVars, resolverVars, relayVars, ipodVars, pairVars >>
    \/ \E p \in proxies, t \in Latencies : holder_mark_success(p, t)
          /\ UNCHANGED << fmtVars, resolverVars, relayVars, ipodVars, pairVars >>
    \/ \E p \in proxies : holder_mark_failure(p)
          /\ UNCHANGED << fmtVars, resolverVars, relayVars, ipodVars, pairVars >>
    \/ \E p \in proxies : other_mark_failure(p)
          /\ UNCHANGED << fmtVars, resolverVars, relayVars, ipodVars, pairVars >>
    \/ Tick /\ UNCHANGED << fmtVars, resolverVars, relayVars, taskVars, ipodVars, pairVars >>

SpecHeld == InitHeld /\ [][NextHeld]_vars

(***************************************************************************)
(* The pairing service and its Socket.IO events.                           *)
(***************************************************************************)
InitPairing ==
    /\ InitPairVars
    /\ IdlePoolVars /\ IdleFormatVars /\ IdleResolverVars /\ InitRelayVars
    /\ IdleTaskVars /\ IdleIpodVars

otherThanPairing == << fmtVars, resolverVars, relayVars, taskVars, ipodVars >>

NextPairing ==
    \/ \E d \in Devices : pair_request(d) /\ UNCHANGED << poolVars, otherThanPairing >>
    \/ \E c \in RawCodes : pair_validate(c) /\ UNCHANGED << poolVars, otherThanPairing >>
    \/ \E h \in Submitters, c \in RawCodes, has_cookie \in BOOLEAN :
          pair_submit_begin(h, c, has_cookie) /\ UNCHANGED << poolVars, otherThanPairing >>
    \/ \E h \in Submitters : pair_submit_finish(h)
          /\ UNCHANGED << poolVars, otherThanPairing >>
    \/ cleanup_loop /\ UNCHANGED << poolVars, otherThanPairing >>
    \/ pairing_tick /\ UNCHANGED otherThanPairing

SpecPairing == InitPairing /\ [][NextPairing]_vars

(***************************************************************************)
(* The resolver and the relay: client requests are made one after the      *)
(* other, each a get_stream_url call or a stream_youtube request.          *)
(***************************************************************************)
Init ==
    InitResolverVars /\ InitRelayVars /\ IdlePoolVars /\ IdleFormatVars /\ IdleTaskVars /\ IdleIpodVars /\ IdlePairVars

Next ==
    \/ \E v \in MediaIds : client_resolve(v)
          /\ UNCHANGED << poolVars, fmtVars, taskVars, ipodVars, pairVars >>
    \/ \E v \in MediaIds, r \in RangeHeaders, a \in BOOLEAN :
          stream_youtube_request(v, r, a) /\ UNCHANGED << poolVars, fmtVars, taskVars, ipodVars, pairVars >>
    \/ strategy_start /\ UNCHANGED << relayVars, poolVars, fmtVars, taskVars, ipodVars, pairVars >>
    \/ all_strategies_failed /\ UNCHANGED << relayVars, poolVars, fmtVars, taskVars, ipodVars, pairVars >>
    \/ yt_dlp_no_cookie_file /\ UNCHANGED << relayVars, poolVars, fmtVars, taskVars, ipodVars, pairVars >>
    \/ yt_dlp_extract_info /\ UNCHANGED << relayVars, poolVars, fmtVars, taskVars, ipodVars, pairVars >>
    \/ \E outcome \in {"error", "no_url", "ok"} :
          yt_dlp_result(outcome) /\ UNCHANGED << relayVars, poolVars, fmtVars, taskVars, ipodVars, pairVars >>
    \/ innertube_post /\ UNCHANGED << relayVars, poolVars, fmtVars, taskVars, ipodVars, pairVars >>
    \/ innertube_failure /\ UNCHANGED << relayVars, poolVars, fmtVars, taskVars, ipodVars, pairVars >>
    \/ \E body \in InnertubeBodies(nresolve) :
          innertube_200(body) /\ UNCHANGED << relayVars, poolVars, fmtVars, taskVars, ipodVars, pairVars >>
    \/ cobalt_post /\ UNCHANGED << relayVars, poolVars, fmtVars, taskVars, ipodVars, pairVars >>
    \/ \E response \in CobaltResponses :
          cobalt_response(response) /\ UNCHANGED << relayVars, poolVars, fmtVars, taskVars, ipodVars, pairVars >>
    \/ piped_get /\ UNCHANGED << relayVars, poolVars, fmtVars, taskVars, ipodVars, pairVars >>
    \/ \E outcome \in {"error", "non200", "200_incomplete", "200_ok"} :
          piped_response(outcome) /\ UNCHANGED << relayVars, poolVars, fmtVars, taskVars, ipodVars, pairVars >>
    \/ strategy_raised /\ UNCHANGED << relayVars, poolVars, fmtVars, taskVars, ipodVars, pairVars >>
    \/ service_protection_error /\ UNCHANGED << poolVars, fmtVars, taskVars, ipodVars, pairVars >>
    \/ relay_resolved /\ UNCHANGED << poolVars, fmtVars, taskVars, ipodVars, pairVars >>
    \/ upstream_get /\ UNCHANGED << poolVars, fmtVars, taskVars, ipodVars, pairVars >>
    \/ upstream_403 /\ UNCHANGED << poolVars, fmtVars, taskVars, ipodVars, pairVars >>
    \/ \E status \in UpstreamStatuses : upstream_response(status)
          /\ UNCHANGED << poolVars, fmtVars, taskVars, ipodVars, pairVars >>
    \/ upstream_exception /\ UNCHANGED << poolVars, fmtVars, taskVars, ipodVars, pairVars >>
    \/ relay_reresolved /\ UNCHANGED << poolVars, fmtVars, taskVars, ipodVars, pairVars >>

Spec == Init /\ [][Next]_vars

\* Every get_stream_url call and every upstream GET eventually returns, and
\* the handler goes on when it has: some step is taken while one is possible.
SpecLive == Spec /\ WF_vars(Next)

(***************************************************************************)
(* The relay of ipod-music-app: requests made one after the other.         *)
(***************************************************************************)
InitIpod ==
    /\ IdleIpodVars /\ IdlePairVars /\ IdlePoolVars /\ IdleTaskVars /\ IdleFormatVars
    /\ IdleResolverVars /\ InitRelayVars

NextIpod ==
    \/ \E v \in MediaIds, r \in RangeHeaders, a \in BOOLEAN :
          ipod_stream_youtube_request(v, r, a) /\ UNCHANGED otherThanIpod
    \/ \E outcome \in {"info_with_url", "info_without_audio", "none", "error"} :
          ipod_extract_info(outcome) /\ UNCHANGED otherThanIpod
    \/ ipod_upstream_get /\ UNCHANGED otherThanIpod
    \/ \E status \in UpstreamStatuses : ipod_upstream_response(status)
          /\ UNCHANGED otherThanIpod
    \/ ipod_yield_chunk /\ UNCHANGED otherThanIpod
    \/ ipod_stream_end /\ UNCHANGED otherThanIpod
    \/ ipod_stream_exception /\ UNCHANGED otherThanIpod

SpecIpod == InitIpod /\ [][NextIpod]_vars

(***************************************************************************)
(* C2: whatever sequence of get_proxy, mark_success and mark_failure calls *)
(* (and passage of time) led to it, a get_proxy call never returns a proxy *)
(* whose failure count exceeds 5, whether or not another proxy with a      *)
(* failure count of at most 5 exists.                                      *)
(***************************************************************************)
C2_AcquireNeverOverThreshold ==
    (lastCall.op = "get_proxy" /\ lastCall.proxy # None)
        => failures[lastCall.proxy[1]] <= 5

\* get_proxy has just returned a proxy while the other proxy of the pool
\* has more than 5 failures.
C2_Witness ==
    /\ lastCall.op = "get_proxy"
    /\ lastCall.proxy # None
    /\ failures[lastCall.proxy[1]] <= 5
    /\ \E q \in Proxies : failures[q] > 5

(***************************************************************************)
(* Format selection on its own: every bounded player response, one call.   *)
(***************************************************************************)
InitFormat ==
    InitFormatVars /\ IdlePoolVars /\ IdleResolverVars /\ InitRelayVars /\ IdleTaskVars /\ IdleIpodVars /\ IdlePairVars

NextFormat == ExtractCall /\ UNCHANGED << poolVars, resolverVars, relayVars, taskVars, ipodVars, pairVars >>

SpecFormat == InitFormat /\ [][NextFormat]_vars

\* The list the selection looks at: adaptiveFormats, or the regular formats
\* when there are no adaptive ones.
CandidateList ==
    IF player_response.streamingData = None THEN << >>
    ELSE IF player_response.streamingData[1].adaptiveFormats # << >>
         THEN player_response.streamingData[1].adaptiveFormats
         ELSE player_response.streamingData[1].formats

IsAudioOnly(f) == Len(f.mimeType) >= 2 /\ SubSeq(f.mimeType, 1, 2) = << "audio", "/" >>
CarriesAudio(f) == \E k \in DOMAIN f.mimeType : f.mimeType[k] \in {"audio", "AUDIO"}
BitrateOrZero(f) == IF f.bitrate = None THEN 0 ELSE f.bitrate[1]

\* The call returned the URL of format f (nothing when f has no URL).
ReturnedUrlOf(f) ==
    IF f.url = None THEN extracted[2] = None
    ELSE extracted[2] # None /\ extracted[2][1].url = f.url

\* Some format of the candidate list satisfying P has the greatest bitrate
\* among those satisfying P, and its URL is what the call returned.
ReturnedBestAmong(P(_)) ==
    \E k \in DOMAIN CandidateList :
        /\ P(CandidateList[k])
        /\ \A j \in DOMAIN CandidateList :
              P(CandidateList[j])
                  => BitrateOrZero(CandidateList[j]) <= BitrateOrZero(CandidateList[k])
        /\ ReturnedUrlOf(CandidateList[k])

C1_SecondResolveIssuesNoUpstreamCall == ~ redundant

(***************************************************************************)
(* C3 as stated: a strategy all of whose attempts fail (transport error,   *)
(* timeout or non-200; no 200 it could not use) has made exactly 3         *)
(* attempts when it returns, whichever strategy of the chain it is.        *)
(***************************************************************************)
AllAttemptsFailed ==
    /\ lastFailure # None
    /\ lastFailure[1].how \in {"exhausted", "error"}
    /\ ~ lastFailure[1].sawUnusable

C3_ThreeAttemptsEveryStrategy ==
    AllAttemptsFailed => lastFailure[1].sent = 3

\* The attempts a strategy makes before it gives up.
AttemptBudget(strategy) ==
    CASE strategy = "_try_yt_dlp_authenticated" -> 1
      [] strategy = "_try_cobalt_api" -> 4
      [] strategy = "_try_piped_fallback" -> 2
      [] OTHER -> 3

(***************************************************************************)
(* C3 amended: a strategy all of whose attempts fail has made, when it     *)
(* returns, exactly 3 attempts if it is a client-profile impersonation,    *)
(* 4 if it is the external resolution service (2 for each of its 2         *)
(* instances), 2 if it is the public mirror (1 for each of its 2           *)
(* instances) and 1 if it is authenticated extraction; and when a strategy *)
(* then succeeds, its result is what get_stream_url returns.               *)
(***************************************************************************)
C3_AttemptBudgetPerStrategy ==
    /\ AllAttemptsFailed
          => lastFailure[1].sent = AttemptBudget(lastFailure[1].strategy)
    /\ (call.pc = "done" /\ firstSuccess # None)
          => call.result = firstSuccess[1].result

\* WEB_REMIX failed all 3 of its attempts, ANDROID then succeeded and
\* get_stream_url returned ANDROID's result.
C3_Witness ==
    /\ call.pc = "done"
    /\ AllAttemptsFailed
    /\ lastFailure[1].strategy = "_try_innertube_web_remix"
    /\ lastFailure[1].sent = 3
    /\ firstSuccess # None
    /\ firstSuccess[1].strategy = "_try_innertube_android"
    /\ call.result = firstSuccess[1].result

(***************************************************************************)
(* C4 as stated: a stream_youtube call issues at most 3 upstream GETs.     *)
(***************************************************************************)
C4_AtMostThreeFetches == Len(fetchLog) <= 3

(***************************************************************************)
(* C4 amended: a stream_youtube call issues at most 4 upstream GETs, the   *)
(* first one and at most 3 retries after a 403.                            *)
(***************************************************************************)
C4_AtMostFourFetches == Len(fetchLog) <= 4

\* Four GETs, each answered 403: the call ended with 403.
C4_Witness ==
    /\ relay.pc = "done"
    /\ Len(fetchLog) = 4
    /\ \A k \in 1..4 : fetchLog[k].status = 403
    /\ relay.status = 403

\* The call whose first GET got 403 and whose second GET got 206 is over.
RelayDoneAfter403Then206 ==
    /\ relay.pc = "done"
    /\ Len(fetchLog) = 2
    /\ fetchLog[1].status = 403
    /\ fetchLog[2].status = 206

(***************************************************************************)
(* C5: after a 403 on the first GET and a 206 on the GET of the re-resolved *)
(* URL, the caller gets 206 with the upstream's Content-Range for its      *)
(* Range, and the cache entry of the media ID is the stream info of the    *)
(* second resolution.                                                      *)
(***************************************************************************)
C5_RetryGives206AndCachesSecond ==
    RelayDoneAfter403Then206 =>
        /\ relay.status = 206
        /\ relay.content_range = relay.range_header
        /\ cache[relay.video_id] # None
        /\ cache[relay.video_id][1].url = fetchLog[2].url

\* The response half of C5, which the code does deliver.
RetryGives206 ==
    RelayDoneAfter403Then206 =>
        /\ relay.status = 206
        /\ relay.content_range = relay.range_header
        /\ relay.range_header # None
        /\ fetchLog[2].url = relay.stream_url
        /\ fetchLog[2].url # fetchLog[1].url

\* get_stream_url has returned after starting every strategy without any
\* of them giving a URL.
ChainExhausted ==
    /\ call.pc = "done"
    /\ firstSuccess = None
    /\ Len(started) = 6

ChainOrder ==
    << "_try_yt_dlp_authenticated", "_try_innertube_web_remix",
       "_try_innertube_android", "_try_innertube_ios",
       "_try_cobalt_api", "_try_piped_fallback" >>

InitialResolveFailed ==
    /\ relay.pc = "done"
    /\ relay.resolves = 1
    /\ relay.stream_info = None \/ relay.stream_info[1].url = None

InitialExhaustionGives503 ==
    /\ InitialResolveFailed
    /\ relay.stream_info = None
    /\ relay.status = 503

\* The relay call is over; every GET it made was answered 403 and every
\* get_stream_url it made gave a URL.
AllFetchesDenied ==
    /\ relay.pc = "done"
    /\ fetchLog # << >>
    /\ \A k \in DOMAIN fetchLog : fetchLog[k].status = 403
    /\ relay.stream_info # None
    /\ relay.stream_info[1].url # None

(***************************************************************************)
(* C11: when every upstream GET of a relay call is answered 403, each      *)
(* re-resolution having given a URL, the call fails with status 403: not   *)
(* 404, not 503 and not a success status.                                  *)
(***************************************************************************)
C11_DeniedAfterRetries ==
    AllFetchesDenied => relay.status = 403 /\ relay.body = "error"

\* One GET and three retries, four resolutions, all answered 403.
C11_Witness ==
    /\ AllFetchesDenied
    /\ relay.resolves = 4
    /\ relay.retry_count = 3
    /\ relay.status = 403
    /\ relay.body = "error"

(***************************************************************************)
(* C12: the status an authorized streaming request is answered with is     *)
(* one of 200, 206, 403, 451, 503, whatever status the upstream answers    *)
(* the GET with.                                                           *)
(***************************************************************************)
C12_StatusSetClosed ==
    (relay.pc = "done" /\ relay.status # 401)
        => relay.status \in {200, 206, 403, 451, 503}

\* Terminal state Success: the upstream's status and body are returned.
RelaySuccess ==
    /\ relay.body = "upstream"
    /\ fetchLog # << >>
    /\ relay.status = fetchLog[Len(fetchLog)].status

\* Terminal state Failed: an HTTP error is raised.
RelayFailed ==
    /\ relay.body = "error"
    /\ relay.status \in {401, 403, 451, 503}

\* Resolving, Fetching, Retrying-After-403
RelayInProgress == relay.pc \in {"resolving", "fetch", "fetching", "reresolving"}

(***************************************************************************)
(* C13: a relay call, every get_stream_url and every upstream GET of which *)
(* returns, ends, and ends in exactly one of Success (the upstream's       *)
(* status and body returned) and Failed (an HTTP error raised); until then *)
(* it is in Resolving, Fetching or Retrying-After-403; it never leaves the *)
(* retry loop without a response or an error.                              *)
(***************************************************************************)
C13_EndsInSuccessOrFailed ==
    /\ [](relay.pc \in {"idle", "done"} \/ RelayInProgress)
    /\ [](relay.pc = "done" => (RelaySuccess /\ ~ RelayFailed) \/ (RelayFailed /\ ~ RelaySuccess))
    /\ (RelayInProgress ~> relay.pc = "done")

\* A call that went through Retrying-After-403 three times and ended in
\* Success.
C13_Witness ==
    /\ relay.pc = "done"
    /\ RelaySuccess
    /\ relay.retry_count = 3
    /\ Len(fetchLog) = 4

(***************************************************************************)
(* The handler of backend-python: every upstream GET of a relay call, the  *)
(* first and each retry, carries the caller's Range header value           *)
(* unchanged, and none when the caller sent none.                          *)
(***************************************************************************)
RangeForwardedOnEveryFetch ==
    \A k \in DOMAIN fetchLog : fetchLog[k].range = relay.range_header

\* A retry went out with the caller's Range header.
RangeForwardedOnRetry ==
    /\ Len(fetchLog) >= 2
    /\ relay.range_header # None
    /\ fetchLog[2].range = relay.range_header

\* A step of mark_success(p, ...): the only steps that count a success.
MarkSuccessStep(p) ==
    /\ successes' = successes + 1
    /\ lastCall'.proxy = Some(p)

(***************************************************************************)
(* C15: every proxy's failure count is >= 0 in every reachable state of a  *)
(* pool; mark_success on a proxy with failure count k > 0 leaves k - 1     *)
(* (not 0), and on a proxy with failure count 0 leaves 0.                  *)
(***************************************************************************)
C15_FailuresReducedNotReset ==
    /\ [](\A p \in Proxies : failures[p] >= 0)
    /\ [][\A p \in Proxies :
            MarkSuccessStep(p) =>
                /\ failures[p] > 0 => failures'[p] = failures[p] - 1
                /\ failures[p] = 0 => failures'[p] = 0
                /\ \A q \in Proxies \ {p} : failures'[q] = failures[q]]_vars

\* mark_success has just taken a proxy from 3 failures to 2.
C15_Witness ==
    /\ lastCall.op = "mark_success"
    /\ failures[lastCall.proxy[1]] = 2
    /\ successes = 1

(***************************************************************************)
(* C16: is_healthy is true of a proxy exactly when its failure count is    *)
(* <= 5 and its last success is null or at most 5 minutes old; it depends  *)
(* on the proxy's current fields only, so a proxy with no history is       *)
(* healthy and one that was unhealthy is healthy again when its fields     *)
(* say so.                                                                 *)
(***************************************************************************)
C16_HealthyFromCurrentFields ==
    \A p \in Proxies :
        is_healthy(p) <=>
            /\ failures[p] <= 5
            /\ last_success[p] = None \/ now - last_success[p][1] <= 5

\* A proxy with exactly 5 failures whose last success is exactly 5 minutes
\* old is healthy, next to one with no history and one with 6 failures.
C16_Witness ==
    /\ proxies = {1, 2}
    /\ failures[1] = 5 /\ last_success[1] # None /\ now - last_success[1][1] = 5
    /\ is_healthy(1)
    /\ failures[2] = 6 /\ ~ is_healthy(2)

\* A step of get_proxy (or one that leaves everything as it is).
GetProxyStep ==
    /\ lastCall'.op = "get_proxy"
    /\ now' = now
    /\ successes' = successes

\* The proxies of the pool that are healthy by their fields.
HealthyNow ==
    {p \in proxies : failures[p] <= 5
                     /\ (last_success[p] = None \/ now - last_success[p][1] <= 5)}

(***************************************************************************)
(* C17: get_proxy returns None exactly when no proxy of the pool is        *)
(* healthy, an empty pool included, and then leaves every field of every   *)
(* proxy as it was.                                                        *)
(***************************************************************************)
C17_NoneExactlyWhenNoneHealthy ==
    [][GetProxyStep =>
          /\ lastCall'.proxy = None <=> HealthyNow = {}
          /\ lastCall'.proxy = None =>
                UNCHANGED << proxies, failures, last_used, last_success,
                             avg_response_time >>
          /\ lastCall'.proxy # None => lastCall'.proxy[1] \in HealthyNow]_vars

\* get_proxy has returned None on a pool of two proxies that had been used:
\* one has too many failures, the other a stale last success.
C17_Witness ==
    /\ lastCall.op = "get_proxy"
    /\ lastCall.proxy = None
    /\ proxies = {1, 2}
    /\ failures[1] > 5
    /\ failures[2] <= 5 /\ last_success[2] # None /\ now - last_success[2][1] > 5
    /\ last_used[1] # None

\* get_proxy has returned None on an empty pool.
AcquireOnEmptyPool ==
    /\ lastCall.op = "get_proxy"
    /\ lastCall.proxy = None
    /\ proxies = {}

RECURSIVE MovingAverage(_)
MovingAverage(seq) ==
    IF Len(seq) = 1 THEN seq[1]
    ELSE (7 * MovingAverage(SubSeq(seq, 1, Len(seq) - 1)) + 3 * seq[Len(seq)]) \div 10

(***************************************************************************)
(* C19: the first mark_success(p, a) on a proxy sets its average latency   *)
(* to a and every later mark_success(p, x) sets it to 0.7 * old + 0.3 * x, *)
(* for all sample values, 0 included.                                      *)
(***************************************************************************)
C19_MovingAverageOfSamples ==
    \A p \in Proxies :
        samples[p] # << >> => avg_response_time[p] = MovingAverage(samples[p])

\* C19 for samples that are all above 0.
MovingAverageOfPositiveSamples ==
    \A p \in Proxies :
        (samples[p] # << >> /\ \A k \in DOMAIN samples[p] : samples[p][k] > 0)
            => avg_response_time[p] = MovingAverage(samples[p])

(***************************************************************************)
(* C14: under every interleaving of concurrent get_proxy, mark_success and *)
(* mark_failure calls on one pool the body of each call takes effect       *)
(* atomically: at most one call is inside a body, no increment or          *)
(* decrement of a failure count is lost, and the proxy a get_proxy stamps  *)
(* is the one it would select at that moment.                              *)
(***************************************************************************)
C14_CallsSerialised ==
    /\ Cardinality(InBody) <= 1
    /\ InBody = {} => \A p \in Proxies : failures[p] = expected[p]
    /\ ~ staleStamp

\* Both tasks have made their two calls; three failure reports on proxy 1
\* and an acquire of it have waited for one another.
C14_Witness ==
    /\ \A t \in Tasks : task[t].pc = "idle" /\ task[t].calls = 2
    /\ failures[1] = 3
    /\ expected[1] = 3
    /\ last_used[1] # None

\* A task waits for the lock while the other is between select and stamp.
WaitingDuringSelectThenStamp ==
    \E t, u \in Tasks :
        /\ task[t].pc = "stamp"
        /\ task[u].pc = "acquire"
        /\ task[u].op = "get_proxy"

\* Every upstream GET of the ipod-music-app handler carries the caller's
\* Range header value.
IpodRangeForwardedOnEveryFetch ==
    \A k \in DOMAIN ipod.fetches : ipod.fetches[k].range = ipod.range_header

(***************************************************************************)
(* C20: every upstream GET issued in a relay call, the first and each      *)
(* retry after a 403, carries the caller's Range header value unchanged    *)
(* when the caller sent one and no Range header when the caller sent none, *)
(* in the handler of backend-python and in that of ipod-music-app.         *)
(***************************************************************************)
C20_RangeForwardedVerbatim ==
    RangeForwardedOnEveryFetch /\ IpodRangeForwardedOnEveryFetch

\* Position of a strategy in the list get_stream_url goes through.
StrategyIndex(strategy) == CHOOSE k \in DOMAIN strategies : strategies[k] = strategy

(***************************************************************************)
(* C21: a strategy that raises an exception does not make get_stream_url   *)
(* raise: the raise counts as that strategy's failure, the loop stands at  *)
(* the strategy after it, and a call whose strategies have all failed,     *)
(* all by raising included, returns None.                                  *)
(***************************************************************************)
C21_RaiseIsStrategyFailure ==
    /\ call.pc # "raised"
    /\ (lastFailure # None /\ lastFailure[1].how = "raised") =>
          /\ call.i = StrategyIndex(lastFailure[1].strategy) + 1
          /\ lastFailure[1].strategy \notin inflight
          /\ firstSuccess # None => firstSuccess[1].strategy # lastFailure[1].strategy
          /\ (call.pc = "done" /\ firstSuccess = None) =>
                call.i = Len(strategies) + 1 /\ call.result = None

\* All six strategies raised, and the call returned None.
C21_Witness ==
    /\ call.pc = "done"
    /\ call.result = None
    /\ started = strategies
    /\ lastFailure # None
    /\ lastFailure[1].allRaised
    /\ lastFailure[1].strategy = strategies[Len(strategies)]

(***************************************************************************)
(* C22: a cache get of an entry younger than the time-to-live returns the  *)
(* entry, and one of an older entry is a miss that removes it: while no    *)
(* time has passed since a media ID was resolved, the cache holds the      *)
(* stream info of that resolution, and nothing else.                       *)
(***************************************************************************)
C22_FreshEntryHeldStaleEntryDropped ==
    \A v \in MediaIds :
        IF v \in resolved
        THEN HasUrl(cache[v])
        ELSE cache[v] = None

(***************************************************************************)
(* C23: every response of the streaming endpoint, the relayed 200 and 206  *)
(* and every error response alike, carries Access-Control-Allow-Origin: *  *)
(* whatever the Origin header of the request.                              *)
(***************************************************************************)
C23_EveryResponseAllowsAnyOrigin ==
    relay.pc = "done" => \A o \in Origins : relay.allow_origin[o] = Some("*")

\* The handler raised 451 for a request: the error response carries the
\* header although the handler set none.
C23_Witness ==
    /\ relay.pc = "done"
    /\ relay.status = 451
    /\ ~ relay.cors
    /\ \A o \in Origins : relay.allow_origin[o] = Some("*")

(***************************************************************************)
(* C24: once an attempt of an impersonation strategy or of the external    *)
(* resolution service received a 200 whose payload has no usable audio     *)
(* format or carries an error status, that strategy makes no further       *)
(* attempt in this call: it is neither about to send nor waiting for a     *)
(* request.                                                                *)
(***************************************************************************)
C24_Unusable200EndsStrategy ==
    (/\ call.pc \in {"strategy", "await"}
     /\ IsInnertube(CurrentStrategy) \/ CurrentStrategy = "_try_cobalt_api")
        => ~ sawUnusable

(***************************************************************************)
(* C25: every attempt of the resolver made through a proxy ends with one   *)
(* report to the proxy pool for that proxy, mark_failure or mark_success:  *)
(* when an attempt through a proxy has ended, the last call the pool       *)
(* received is a report for the proxy of that attempt.                     *)
(***************************************************************************)
C25_AttemptReportedToPool ==
    (call.proxy # None /\ call.pc # "await")
        => /\ lastCall.op \in {"mark_success", "mark_failure"}
           /\ lastCall.proxy = call.proxy

\* The formats of both lists of the payload that carry audio and have a URL.
PlayableAudioUrls ==
    IF player_response.streamingData = None THEN {}
    ELSE LET sd == player_response.streamingData[1] IN
         { sd.adaptiveFormats[k].url[1] :
              k \in { j \in DOMAIN sd.adaptiveFormats :
                         /\ CarriesAudio(sd.adaptiveFormats[j])
                         /\ sd.adaptiveFormats[j].url # None } }
         \cup
         { sd.formats[k].url[1] :
              k \in { j \in DOMAIN sd.formats :
                         CarriesAudio(sd.formats[j]) /\ sd.formats[j].url # None } }

(***************************************************************************)
(* C26: when the player payload lists, in its adaptive or its regular      *)
(* list, an audio-capable format with a direct URL, the extraction returns *)
(* the URL of such a format; it returns nothing only when the payload      *)
(* holds no audio-capable format with a URL.                               *)
(***************************************************************************)
C26_AnyPlayableFormatIsFound ==
    extracted[1] = "returned" =>
        IF PlayableAudioUrls = {}
        THEN extracted[2] = None
        ELSE extracted[2] # None /\ extracted[2][1].url[1] \in PlayableAudioUrls

\* The get_stream_url call of the request whose answer a signed URL is:
\* the last component of the URL.
UrlOfResolve(url) == url[1][Len(url[1])]

ReresolveFailed ==
    /\ relay.pc = "done"
    /\ relay.resolves >= 2
    /\ relay.stream_info = None \/ relay.stream_info[1].url = None

(***************************************************************************)
(* C28: when a get_stream_url call made after an upstream 403 fails, the   *)
(* request ends with an error and no further upstream fetch: status 451    *)
(* when the failure is the content-protection error, 503 otherwise, as     *)
(* for the first get_stream_url of the request.                            *)
(***************************************************************************)
C28_ReresolveFailureStatus ==
    ReresolveFailed =>
        /\ Len(fetchLog) = relay.resolves - 1
        /\ relay.body = "error"
        /\ relay.status = ResolveFailureStatus(relay.stream_info)

\* stream_youtube of backend-python: a response made of the upstream body
\* comes from an upstream answer of status 200 or 206.
BodyOnlyFromSuccess ==
    relay.body = "upstream" => fetchLog[Len(fetchLog)].status \in {200, 206}

\* stream_generator of ipod-music-app: chunks were sent to the caller only
\* from an upstream answer of status 200 or 206.
IpodBodyOnlyFromSuccess ==
    ipod.chunks > 0 => ipod.fetches[Len(ipod.fetches)].status \in {200, 206}

(***************************************************************************)
(* C29: no body byte of an upstream response of status 403 or of another   *)
(* error status reaches the caller, in the handler of backend-python and   *)
(* in that of ipod-music-app: the bytes sent come from a 200 or a 206.     *)
(***************************************************************************)
C29_NoBodyFromErrorResponse ==
    BodyOnlyFromSuccess /\ IpodBodyOnlyFromSuccess

\* Proxy q was used less recently than proxy r: q never, or q earlier.
UsedBefore(q, r) ==
    \/ last_used[q] = None /\ last_used[r] # None
    \/ last_used[q] # None /\ last_used[r] # None /\ last_used[q][1] < last_used[r][1]

\* Proxy q comes strictly before proxy r in the order of the claim: last
\* use (never used first), then failure count, then average latency.
StrictlyBefore(q, r) ==
    \/ UsedBefore(q, r)
    \/ last_used[q] = last_used[r] /\ failures[q] < failures[r]
    \/ /\ last_used[q] = last_used[r]
       /\ failures[q] = failures[r]
       /\ avg_response_time[q] < avg_response_time[r]

(***************************************************************************)
(* C30: the proxy get_proxy returns is healthy, and at the time of the     *)
(* call no healthy proxy comes strictly before it in the order (last use   *)
(* with never-used proxies first, then failure count ascending, then       *)
(* average latency ascending).                                             *)
(***************************************************************************)
C30_ReturnsMinimalHealthyProxy ==
    [][(GetProxyStep /\ lastCall'.proxy # None) =>
          /\ lastCall'.proxy[1] \in HealthyNow
          /\ \A q \in HealthyNow : ~ StrictlyBefore(q, lastCall'.proxy[1])]_vars

\* get_proxy has returned proxy 2 while proxy 1, listed first, is healthy
\* and was never used: neither had been used, and proxy 1 has more failures.
C30_Witness ==
    /\ lastCall.op = "get_proxy"
    /\ lastCall.proxy = Some(2)
    /\ proxies = {1, 2}
    /\ last_used[1] = None
    /\ 1 \in HealthyNow
    /\ failures[1] > failures[2]

\* A step of mark_failure: the pool's last call is a failure report and no
\* time has passed.
MarkFailureStep ==
    /\ lastCall'.op = "mark_failure"
    /\ now' = now

(***************************************************************************)
(* C31: get_proxy changes nothing but last_used of the proxy it returns,   *)
(* which becomes the current time: failures, last_success and              *)
(* avg_response_time of every proxy and last_used of every other proxy     *)
(* are unchanged; mark_failure changes only failures of the reported       *)
(* proxy, by exactly +1.                                                   *)
(***************************************************************************)
C31_AcquireAndFailureFrame ==
    /\ [][GetProxyStep =>
            /\ UNCHANGED << proxies, failures, last_success, avg_response_time >>
            /\ \A p \in Proxies :
                  last_used'[p] = IF lastCall'.proxy = Some(p) THEN Some(now)
                                  ELSE last_used[p]]_vars
    /\ [][MarkFailureStep =>
            /\ UNCHANGED << proxies, last_used, last_success, avg_response_time >>
            /\ \A p \in Proxies :
                  failures'[p] = IF lastCall'.proxy = Some(p) THEN failures[p] + 1
                                 ELSE failures[p]]_vars

\* get_proxy has just returned proxy 2 at a time later than 0, while proxy
\* 1 carries failures, a last success, an average and an earlier last use.
C31_Witness ==
    /\ lastCall.op = "get_proxy"
    /\ lastCall.proxy = Some(2)
    /\ now > 0
    /\ last_used[2] = Some(now)
    /\ last_used[1] # None /\ last_used[1] # Some(now)
    /\ failures[1] > 0
    /\ last_success[1] # None
    /\ avg_response_time[1] > 0

C33_CobaltSuccessAndFailure ==
    /\ call.pc # "raised"
    /\ (firstSuccess # None /\ firstSuccess[1].strategy = "_try_cobalt_api") =>
          /\ accepted # None
          /\ accepted[1].status_code = 200
          /\ accepted[1].streams
          /\ accepted[1].hasUrl
    /\ (lastFailure # None /\ lastFailure[1].strategy = "_try_cobalt_api") =>
          /\ lastFailure[1].how = "exhausted" =>
                lastFailure[1].sent = COBALT_ATTEMPTS * Len(cobalt_instances)
          /\ strategies[call.i] = "_try_piped_fallback"
          /\ call.pc # "loop" => started[Len(started)] = "_try_piped_fallback"

\* Every request of the external-resolution strategy was answered without
\* a usable stream, one of them with a 200, and the public mirror, tried
\* next, returned a URL.
C33_Witness ==
    /\ call.pc = "done"
    /\ lastFailure # None
    /\ lastFailure[1].strategy = "_try_cobalt_api"
    /\ lastFailure[1].how = "exhausted"
    /\ lastFailure[1].sawUnusable
    /\ lastFailure[1].sent = 4
    /\ firstSuccess # None
    /\ firstSuccess[1].strategy = "_try_piped_fallback"

\* The authenticated extraction is the last strategy of this call to have
\* failed, and it failed by returning, not by raising.
AuthenticatedExtractionReturnedNone ==
    /\ lastFailure # None
    /\ lastFailure[1].strategy = "_try_yt_dlp_authenticated"
    /\ lastFailure[1].how # "raised"

RunRotates ==
    LET run == lastCall.run
        N == Cardinality(lastCall.healthy) IN
    /\ \A i, j \in DOMAIN run : (i < j /\ j <= N) => run[i] # run[j]
    /\ Len(run) > N => run[N + 1] = run[1]

Unhealthy(p) ==
    \/ failures[p] > FAILURE_THRESHOLD
    \/ last_success[p] # None /\ now - last_success[p][1] > STALE_MINUTES

\* p is unhealthy and no caller holds it from an earlier get_proxy.
Disabled(p) == p \in proxies /\ Unhealthy(p) /\ held[p] = 0

\* A step of the callers that leaves p where the claim says it stays: still
\* disabled, not returned by this get_proxy, its last success unchanged.
StaysDisabled(p) ==
    /\ p \in proxies'
    /\ \/ failures'[p] > FAILURE_THRESHOLD
       \/ last_success'[p] # None /\ now' - last_success'[p][1] > STALE_MINUTES
    /\ held'[p] = 0
    /\ last_success'[p] = last_success[p]
    /\ GetProxyStep => lastCall'.proxy # Some(p)

\* With every proxy disabled, get_proxy returns None.
NoneWhenAllDisabled ==
    (proxies # {} /\ \A p \in proxies : Disabled(p)) /\ GetProxyStep
        => lastCall'.proxy = None

\* C36 as stated: with success reported only for proxies obtained from
\* get_proxy, a proxy that is unhealthy while no caller holds it is never
\* returned by get_proxy again and its failure count and last success never
\* change; once every proxy is so, get_proxy returns None from then on.
C36_DisabledProxyNeverChanges ==
    [][ /\ \A p \in Proxies :
              Disabled(p) => StaysDisabled(p) /\ failures'[p] = failures[p]
        /\ NoneWhenAllDisabled ]_vars

\* C36 amended: the failure count of such a proxy never goes down (a
\* failure reported by someone who does not hold it still raises it).
C36_DisabledProxyStaysDisabled ==
    [][ /\ \A p \in Proxies :
              Disabled(p) => StaysDisabled(p) /\ failures'[p] >= failures[p]
        /\ NoneWhenAllDisabled ]_vars

\* Every proxy is disabled, one by its failures and one by its stale
\* success, and a get_proxy has just returned None.
C36_Witness ==
    /\ proxies = Proxies
    /\ \A p \in proxies : Disabled(p)
    /\ \E p \in proxies : failures[p] > FAILURE_THRESHOLD
    /\ \E p \in proxies : failures[p] <= FAILURE_THRESHOLD
    /\ lastCall.op = "get_proxy" /\ lastCall.proxy = None

\* C37: an upstream fetch that ends in a transport error or a timeout is
\* the last thing the relay call does: it is answered 503 with an error
\* body, no get_stream_url and no further fetch follows (each fetch of the
\* call was preceded by exactly one resolution), whatever retry_count was.
C37_TransportErrorFailsAtOnce ==
    \A k \in DOMAIN fetchLog :
        fetchLog[k].status = 0 - 1 =>
            /\ k = Len(fetchLog)
            /\ relay.pc = "done"
            /\ relay.status = 503
            /\ relay.body = "error"
            /\ relay.resolves = Len(fetchLog)
            /\ relay.retry_count = Len(fetchLog) - 1
            /\ call.pc \in {"idle", "done"}

\* The second fetch of a call, made after a 403 with retries left, timed
\* out and the call was answered 503.
C37_Witness ==
    /\ Len(fetchLog) = 2
    /\ fetchLog[1].status = 403
    /\ fetchLog[2].status = 0 - 1
    /\ relay.retry_count = 1
    /\ relay.pc = "done"
    /\ relay.status = 503

\* C38: a pairing code delivers credentials to its device at most once: of
\* the pair_submit requests for one code, handled one after the other or
\* at the same time, at most one emits pair_credentials and at most one is
\* answered with success.
C38_CredentialsDeliveredOnce ==
    \A c \in Codes : delivered[c] <= 1 /\ answered[c] <= 1

\* The code the last validate_code call looked up.
ValidatedCode == lastValidate[1].code

\* C39 as stated: validate_code accepts a code exactly when it is in the
\* active set, not marked used and before its expiry time; once
\* mark_code_used(c) was called every later validate_code(c) is rejected;
\* a code at or past its expiry is rejected, removed by the cleanup loop
\* or not.
C39_ValidateCode ==
    lastValidate # None =>
        /\ lastValidate[1].valid <=>
              /\ InActive(ValidatedCode)
              /\ ~ active_codes[ValidatedCode][1].used
              /\ now < active_codes[ValidatedCode][1].expires_at
        /\ ValidatedCode \in markedEver => ~ lastValidate[1].valid
        /\ (/\ ValidatedCode \in Codes
            /\ expiry[ValidatedCode] # None
            /\ now >= expiry[ValidatedCode][1]) => ~ lastValidate[1].valid

\* C39 amended: a code mark_code_used was called for is rejected by every
\* later validate_code until generate_code issues it again.
C39_ValidateCodeUntilReissued ==
    lastValidate # None =>
        /\ lastValidate[1].valid <=>
              /\ InActive(ValidatedCode)
              /\ ~ active_codes[ValidatedCode][1].used
              /\ now < active_codes[ValidatedCode][1].expires_at
        /\ ValidatedCode \in marked => ~ lastValidate[1].valid
        /\ (/\ ValidatedCode \in Codes
            /\ expiry[ValidatedCode] # None
            /\ now >= expiry[ValidatedCode][1]) => ~ lastValidate[1].valid

\* validate_code has just rejected a code that reached its expiry time and
\* is still in the active set, unused, while another code it was asked
\* about before had been marked used.
C39_Witness ==
    /\ lastValidate # None
    /\ InActive(ValidatedCode)
    /\ ~ active_codes[ValidatedCode][1].used
    /\ now = active_codes[ValidatedCode][1].expires_at
    /\ ~ lastValidate[1].valid
    /\ lastValidate[1].error = "Code has expired"
    /\ \E c \in marked : c # ValidatedCode

====
